---- MODULE Spec2Model ----
(***************************************************************************)
(* QuestScope: the log parser (parsers/LogParser), the file handler        *)
(* (handlers/FileHandler), the data store (store/DataStore) with its       *)
(* charts and listeners, and the functions of processors/DataProcessor, as *)
(* a state machine.                                                        *)
(*                                                                         *)
(* Text is a sequence of one-character strings.  A JavaScript value that   *)
(* may be absent (a failed regex match, null) is a sequence of length 0 or *)
(* 1.  A JavaScript number is a record [nan, m, e] of value m * 10^(-e),   *)
(* or NaN when nan is TRUE.  A Date is the record [nan, time] of its       *)
(* getTime(), Invalid Date having nan = TRUE.                              *)
(***************************************************************************)
EXTENDS Integers, Sequences, FiniteSets, TLC

None == <<>>
Some(x) == <<x>>

----------------------------------------------------------------------------
(* Characters, numbers and dates                                           *)

\* the backtick character (BT in the comments on the patterns below)
Backtick == "bt"

Digits == {"0", "1", "2", "3", "4", "5", "6", "7", "8", "9"}

DigitVal(ch) ==
  CASE ch = "0" -> 0 [] ch = "1" -> 1 [] ch = "2" -> 2 [] ch = "3" -> 3
    [] ch = "4" -> 4 [] ch = "5" -> 5 [] ch = "6" -> 6 [] ch = "7" -> 7
    [] ch = "8" -> 8 [] ch = "9" -> 9

NaN == [nan |-> TRUE, m |-> 0, e |-> 0]
Num(m, e) == [nan |-> FALSE, m |-> m, e |-> e]

\* the length of the longest run of digits of s that starts at index from
RECURSIVE DigitRun(_, _)
DigitRun(s, from) ==
  IF from <= Len(s) /\ s[from] \in Digits THEN 1 + DigitRun(s, from + 1) ELSE 0

\* the decimal value of a sequence of digits
RECURSIVE DigitsValue(_)
DigitsValue(s) ==
  IF Len(s) = 0 THEN 0
  ELSE 10 * DigitsValue(SubSeq(s, 1, Len(s) - 1)) + DigitVal(s[Len(s)])

\* parseInt(text): the longest prefix of digits, NaN when there is none
ParseInt(s) ==
  LET n == DigitRun(s, 1)
  IN IF n = 0 THEN NaN ELSE Num(DigitsValue(SubSeq(s, 1, n)), 0)

\* parseFloat(text): digits, then optionally a point and digits; NaN when
\* that prefix holds no digit
ParseFloat(s) ==
  LET ip == DigitRun(s, 1)
      point == ip + 1 <= Len(s) /\ s[ip + 1] = "."
      fp == IF point THEN DigitRun(s, ip + 2) ELSE 0
  IN IF ip + fp = 0 THEN NaN
     ELSE Num(DigitsValue(SubSeq(s, 1, ip) \o SubSeq(s, ip + 2, ip + 1 + fp)), fp)

\* parseInt(timeNanos) / 1_000_000
NanosToMs(n) == IF n.nan THEN NaN ELSE Num(n.m, n.e + 6)

\* The timestamp text 2025-<month>-03T<hour>:24:<second>.877189Z: the part of
\* yyyy-mm-ddThh:mm:ss.ffffffZ that the model varies.
TsText(mo, hh, ss) == [month |-> mo, hour |-> hh, second |-> ss]

InvalidDate == [nan |-> TRUE, time |-> 0]

\* new Date(timestampStr): the instant, Invalid Date when a field is out of
\* range; it never throws.  time is order-isomorphic to getTime().
NewDate(t) ==
  IF t.month \in 1..12 /\ t.hour \in 0..23 /\ t.second \in 0..59
  THEN [nan |-> FALSE, time |-> (t.month * 100 + t.hour) * 100 + t.second]
  ELSE InvalidDate

----------------------------------------------------------------------------
(* Text helpers                                                            *)

IsDigits(s) == Len(s) > 0 /\ \A i \in 1..Len(s) : s[i] \in Digits

\* [^xyz]+ : not empty and none of the excluded characters
NoneOf(s, excluded) == Len(s) > 0 /\ \A i \in 1..Len(s) : s[i] \notin excluded

\* the last index of character ch in s, 0 when absent
LastIndexOf(s, ch) ==
  LET at == {i \in 1..Len(s) : s[i] = ch}
  IN IF at = {} THEN 0 ELSE CHOOSE i \in at : \A j \in at : j <= i

\* the first index of character ch in s, 0 when absent
FirstIndexOf(s, ch) ==
  LET at == {i \in 1..Len(s) : s[i] = ch}
  IN IF at = {} THEN 0 ELSE CHOOSE i \in at : \A j \in at : i <= j

\* tableName.replace(/~\d+$/, empty)
normalizeTableName(tableName) ==
  LET k == LastIndexOf(tableName, "~")
  IN IF k > 0 /\ IsDigits(SubSeq(tableName, k + 1, Len(tableName)))
     THEN SubSeq(tableName, 1, k - 1)
     ELSE tableName

\* text.split(space): the pieces between single spaces, empty pieces included
RECURSIVE SplitSpaces(_)
SplitSpaces(s) ==
  LET k == FirstIndexOf(s, " ")
  IN IF k = 0 THEN <<s>>
     ELSE <<SubSeq(s, 1, k - 1)>> \o SplitSpaces(SubSeq(s, k + 1, Len(s)))

\* pieces.join(space)
RECURSIVE JoinSpaces(_)
JoinSpaces(pieces) ==
  IF Len(pieces) = 0 THEN <<>>
  ELSE IF Len(pieces) = 1 THEN pieces[1]
  ELSE pieces[1] \o <<" ">> \o JoinSpaces(Tail(pieces))

\* sql.split(space).slice(0, 5).join(space), then ... when there are more than 5 pieces
SqlPreview(sql) ==
  LET pieces == SplitSpaces(sql)
      kept == SubSeq(pieces, 1, IF Len(pieces) < 5 THEN Len(pieces) ELSE 5)
  IN JoinSpaces(kept) \o (IF Len(pieces) > 5 THEN <<".", ".", ".">> ELSE <<>>)

----------------------------------------------------------------------------
(* Log lines and PATTERNS                                                  *)
(*                                                                         *)
(* A line is the timestamp text it starts with, if any, and the fragments  *)
(* that follow it, each with the text found at its capture positions.  A   *)
(* pattern matches when its fragment is present after a timestamp and      *)
(* every capture is in the character class the regex gives it.             *)

\* PATTERNS.query: ts .*? QueryProgress\s+(fin|exe) .*? sql=BT([^BT]+)BT .*? time=(\d+)]
PatternQuery(line) ==
  IF /\ line.ts # None /\ line.query # None
     /\ line.query[1].kind \in {"fin", "exe"}
     /\ NoneOf(line.query[1].sql, {Backtick})
     /\ IsDigits(line.query[1].time)
  THEN Some([timestampStr |-> line.ts[1], kind |-> line.query[1].kind,
             sql |-> line.query[1].sql, timeNanos |-> line.query[1].time])
  ELSE None

\* PATTERNS.walJob: ts .*? ApplyWal2TableJob job (?:finished|ejected) [table=([^,]+),
\* seqTxn=\d+, transactions=(\d+), rows=(\d+), time=(\d+)ms, rate=(\d+)rows/s, ampl=([\d.]+)]
PatternWalJob(line) ==
  IF /\ line.ts # None /\ line.walJob # None
     /\ NoneOf(line.walJob[1].table, {","})
     /\ IsDigits(line.walJob[1].transactions)
     /\ IsDigits(line.walJob[1].rows)
     /\ IsDigits(line.walJob[1].timeMs)
     /\ IsDigits(line.walJob[1].rate)
     /\ Len(line.walJob[1].ampl) > 0
     /\ \A i \in 1..Len(line.walJob[1].ampl) : line.walJob[1].ampl[i] \in Digits \cup {"."}
  THEN Some([timestampStr |-> line.ts[1]] @@ line.walJob[1])
  ELSE None

\* PATTERNS.walCommit: ts .*? WalWriter commit [wal=/([^/]+)/.*?, segTxn=\d+,
\* seqTxn=\d+, rowLo=(\d+), rowHi=(\d+),
PatternWalCommit(line) ==
  IF /\ line.ts # None /\ line.walCommit # None
     /\ NoneOf(line.walCommit[1].table, {"/"})
     /\ IsDigits(line.walCommit[1].rowLo)
     /\ IsDigits(line.walCommit[1].rowHi)
  THEN Some([timestampStr |-> line.ts[1]] @@ line.walCommit[1])
  ELSE None

\* PATTERNS.partitionClosing: ts .*? TableReader closed partition
\* [path=/([^,~/]+)(?:~\d+)?, timestamp=([^\]]+)]
PatternPartitionClosing(line) ==
  IF line.ts # None /\ line.partitionClosing # None
  THEN LET path == line.partitionClosing[1].path
           k == FirstIndexOf(path, "~")
           name == IF k = 0 THEN path ELSE SubSeq(path, 1, k - 1)
       IN IF /\ NoneOf(name, {",", "~", "/"})
             /\ k > 0 => IsDigits(SubSeq(path, k + 1, Len(path)))
             /\ NoneOf(line.partitionClosing[1].partitionTimestamp, {"]"})
          THEN Some([timestampStr |-> line.ts[1], table |-> name,
                     partitionTimestamp |-> line.partitionClosing[1].partitionTimestamp])
          ELSE None
  ELSE None

\* PATTERNS.pgwireConnection: ts .*? pg-server connected [ip=([^,]+), fd=(\d+), connCount=(\d+)]
PatternPgwireConnection(line) ==
  IF /\ line.ts # None /\ line.pgwire # None
     /\ NoneOf(line.pgwire[1].ip, {","})
     /\ IsDigits(line.pgwire[1].fd)
     /\ IsDigits(line.pgwire[1].connCount)
  THEN Some([timestampStr |-> line.ts[1]] @@ line.pgwire[1])
  ELSE None

\* PATTERNS.connectionLimit: /max connection limit reached.*unregistered listener/i
ConnectionLimitTestedLast(line) ==
  line.connLimit /\ line.o3 = None /\ line.squash = None /\ line.merge = None
PatternConnectionLimit(line) == line.connLimit

\* PATTERNS.o3Partition: /o3 split partition \[table=([^,]+)/i
PatternO3Partition(line) ==
  IF line.o3 # None /\ NoneOf(line.o3[1], {","}) THEN line.o3 ELSE None

\* PATTERNS.partitionSquashing: /squashing partitions \[table=([^,]+)/i
PatternPartitionSquashing(line) ==
  IF line.squash # None /\ NoneOf(line.squash[1], {","}) THEN line.squash ELSE None

\* PATTERNS.mergePartition: ts .*? TableWriter merged partition [table=BT([^BT]+)BT,
\* ts=.*?, txn=(\d+), rows=(\d+)]
PatternMergePartition(line) ==
  IF /\ line.ts # None /\ line.merge # None
     /\ NoneOf(line.merge[1].table, {Backtick})
     /\ IsDigits(line.merge[1].txn)
     /\ IsDigits(line.merge[1].rows)
  THEN Some([timestampStr |-> line.ts[1]] @@ line.merge[1])
  ELSE None

----------------------------------------------------------------------------
(* The entry parsers.  Each returns None (null) or Some(record).  new Date, *)
(* parseInt, parseFloat and the string methods never throw, so the catch   *)
(* branches of the source are never taken.                                 *)

parseQueryEntry(line, fileName) ==
  LET match == PatternQuery(line)
  IN IF match = None \/ match[1].kind # "fin" THEN None
     ELSE Some([timestamp |-> NewDate(match[1].timestampStr),
                executionTimeMs |-> NanosToMs(ParseInt(match[1].timeNanos)),
                sqlPreview |-> SqlPreview(match[1].sql),
                fullSql |-> match[1].sql,
                file |-> fileName])

parseWalJobEntry(line, fileName) ==
  LET match == PatternWalJob(line)
  IN IF match = None THEN None
     ELSE Some([timestamp |-> NewDate(match[1].timestampStr),
                table |-> normalizeTableName(match[1].table),
                transactions |-> ParseInt(match[1].transactions),
                rows |-> ParseInt(match[1].rows),
                timeMs |-> ParseInt(match[1].timeMs),
                rate |-> ParseInt(match[1].rate),
                amplification |-> ParseFloat(match[1].ampl),
                file |-> fileName])

\* rowHi - rowLo of two parsed integers
RowsCommitted(hi, lo) == IF hi.nan \/ lo.nan THEN NaN ELSE Num(hi.m - lo.m, 0)

parseWalCommitEntry(line, fileName) ==
  LET match == PatternWalCommit(line)
  IN IF match = None THEN None
     ELSE Some([timestamp |-> NewDate(match[1].timestampStr),
                table |-> normalizeTableName(match[1].table),
                rowsCommitted |-> RowsCommitted(ParseInt(match[1].rowHi),
                                                ParseInt(match[1].rowLo)),
                rowLo |-> ParseInt(match[1].rowLo),
                rowHi |-> ParseInt(match[1].rowHi),
                file |-> fileName])

parsePartitionClosingEntry(line, fileName) ==
  LET match == PatternPartitionClosing(line)
  IN IF match = None THEN None
     ELSE Some([timestamp |-> NewDate(match[1].timestampStr),
                table |-> normalizeTableName(match[1].table),
                partitionTimestamp |-> match[1].partitionTimestamp,
                file |-> fileName])

\* the pgwire branch written inline in parseQuestDBLog
parsePgwireConnection(line, fileName) ==
  LET match == PatternPgwireConnection(line)
  IN IF match = None THEN None
     ELSE Some([timestamp |-> NewDate(match[1].timestampStr),
                ip |-> match[1].ip,
                fd |-> ParseInt(match[1].fd),
                connCount |-> ParseInt(match[1].connCount),
                file |-> fileName])

MessageLimit == 200

\* The length of the shortest line that has the timestamp and the fragments
\* of the line: the literal text of each pattern (| standing for BT) and
\* its captures.
LineLength(line) ==
  (IF line.ts = None THEN 0 ELSE Len("2025-09-03T13:24:11.877189Z"))
  + (IF line.query = None THEN 0
     ELSE Len(" QueryProgress fin [sql=||, time=]")
          + Len(line.query[1].sql) + Len(line.query[1].time))
  + (IF line.walJob = None THEN 0
     ELSE Len(" ApplyWal2TableJob job finished [table=, seqTxn=1, transactions=, rows=, time=ms, rate=rows/s, ampl=]")
          + Len(line.walJob[1].table) + Len(line.walJob[1].transactions)
          + Len(line.walJob[1].rows) + Len(line.walJob[1].timeMs)
          + Len(line.walJob[1].rate) + Len(line.walJob[1].ampl))
  + (IF line.walCommit = None THEN 0
     ELSE Len(" WalWriter commit [wal=//0, segTxn=1, seqTxn=1, rowLo=, rowHi=,")
          + Len(line.walCommit[1].table) + Len(line.walCommit[1].rowLo)
          + Len(line.walCommit[1].rowHi))
  + (IF line.partitionClosing = None THEN 0
     ELSE Len(" TableReader closed partition [path=/, timestamp=]")
          + Len(line.partitionClosing[1].path)
          + Len(line.partitionClosing[1].partitionTimestamp))
  + (IF line.pgwire = None THEN 0
     ELSE Len(" pg-server connected [ip=, fd=, connCount=]")
          + Len(line.pgwire[1].ip) + Len(line.pgwire[1].fd)
          + Len(line.pgwire[1].connCount))
  + (IF line.connLimit THEN Len(" max connection limit reached, unregistered listener") ELSE 0)
  + (IF line.o3 = None THEN 0 ELSE Len(" o3 split partition [table=,") + Len(line.o3[1]))
  + (IF line.squash = None THEN 0
     ELSE Len(" squashing partitions [table=,") + Len(line.squash[1]))
  + (IF line.merge = None THEN 0
     ELSE Len(" TableWriter merged partition [table=||, ts=x, txn=, rows=]")
          + Len(line.merge[1].table) + Len(line.merge[1].txn) + Len(line.merge[1].rows))

\* the number of characters of a text given by its pieces
RECURSIVE PiecesLength(_)
PiecesLength(pieces) ==
  IF Len(pieces) = 0 THEN 0 ELSE Len(Head(pieces)) + PiecesLength(Tail(pieces))

\* a template literal: its pieces (literal text and substituted values)
\* and its length
TemplateText(pieces) == [pieces |-> pieces, length |-> PiecesLength(pieces)]

\* line.substring(0, 200): at most the first 200 characters of the line
LineSubstring(line) ==
  [pieces |-> <<"line.substring(0, 200)">>,
   length |-> IF LineLength(line) < MessageLimit THEN LineLength(line) ELSE MessageLimit]

parseSystemEvent(line, fileName) ==
  IF line.ts = None THEN None
  ELSE LET timestamp == NewDate(line.ts[1])
           o3Match == PatternO3Partition(line)
           squashMatch == PatternPartitionSquashing(line)
           mergeMatch == PatternMergePartition(line)
       IN IF PatternConnectionLimit(line)
          THEN Some([timestamp |-> timestamp, errorType |-> "Connection Limit",
                     table |-> None,
                     message |-> LineSubstring(line), file |-> fileName])
          ELSE IF o3Match # None
          THEN Some([timestamp |-> timestamp, errorType |-> "O3 Partition Split",
                     table |-> Some(normalizeTableName(o3Match[1])),
                     message |-> TemplateText(<<"O3 partition split for table: ", o3Match[1]>>),
                     file |-> fileName])
          ELSE IF squashMatch # None
          THEN Some([timestamp |-> timestamp, errorType |-> "Partition Squashing",
                     table |-> Some(normalizeTableName(squashMatch[1])),
                     message |-> TemplateText(<<"Squashing partitions for table: ",
                                                squashMatch[1]>>),
                     file |-> fileName])
          ELSE IF mergeMatch # None
          THEN Some([timestamp |-> timestamp, errorType |-> "Merge Partition",
                     table |-> Some(normalizeTableName(mergeMatch[1].table)),
                     message |-> TemplateText(<<"Merged partition for table: ",
                                                mergeMatch[1].table,
                                                ", rows: ", mergeMatch[1].rows>>),
                     file |-> fileName])
          ELSE None

Categories ==
  <<"queries", "walJobs", "walCommits", "partitionClosings", "pgwireConnections",
    "systemEvents">>

CategorySet == {Categories[k] : k \in 1..Len(Categories)}

EmptyResult == [c \in CategorySet |-> <<>>]

\* One pass of the loop body of parseQuestDBLog: None when the line adds
\* nothing, else the collection and the record pushed to it.  A parser is
\* tried only when every parser before it returned null.
parseLine(line, fileName) ==
  LET queryEntry == parseQueryEntry(line, fileName)
      walJobEntry == parseWalJobEntry(line, fileName)
      walCommitEntry == parseWalCommitEntry(line, fileName)
      partitionClosingEntry == parsePartitionClosingEntry(line, fileName)
      pgwireEntry == parsePgwireConnection(line, fileName)
      systemEvent == parseSystemEvent(line, fileName)
  IN IF queryEntry # None THEN Some([into |-> "queries", entry |-> queryEntry[1]])
     ELSE IF walJobEntry # None THEN Some([into |-> "walJobs", entry |-> walJobEntry[1]])
     ELSE IF walCommitEntry # None
     THEN Some([into |-> "walCommits", entry |-> walCommitEntry[1]])
     ELSE IF partitionClosingEntry # None
     THEN Some([into |-> "partitionClosings", entry |-> partitionClosingEntry[1]])
     ELSE IF pgwireEntry # None
     THEN Some([into |-> "pgwireConnections", entry |-> pgwireEntry[1]])
     ELSE IF systemEvent # None
     THEN Some([into |-> "systemEvents", entry |-> systemEvent[1]])
     ELSE None

\* result.<collection>.push(entry)
PushEntry(result, hit) ==
  IF hit = None THEN result
  ELSE [result EXCEPT ![hit[1].into] = Append(@, hit[1].entry)]

\* parseQuestDBLog(logContent, fileName): the result of the whole loop over
\* lines = logContent.split(newline)
RECURSIVE parseLines(_, _, _)
parseLines(lines, fileName, result) ==
  IF Len(lines) = 0 THEN result
  ELSE parseLines(Tail(lines), fileName, PushEntry(result, parseLine(Head(lines), fileName)))

parseQuestDBLog(lines, fileName) == parseLines(lines, fileName, EmptyResult)

----------------------------------------------------------------------------
(* Sample text and lines                                                   *)

TxtTable == <<"t">>
TxtShard == <<"t", "~", "2">>
TxtSql == <<"a", " ", "b">>
TxtFive == <<"5">>
TxtSeven == <<"7">>
TxtWord == <<"x">>
TxtAmpl == <<"1", ".", "5">>
TxtPoint == <<".">>

FragQuery(kind, time) == [kind |-> kind, sql |-> TxtSql, time |-> time]
FragWalJob(ampl) ==
  [table |-> TxtShard, transactions |-> TxtFive, rows |-> TxtSeven,
   timeMs |-> TxtFive, rate |-> TxtSeven, ampl |-> ampl]
FragWalCommit == [table |-> TxtShard, rowLo |-> TxtFive, rowHi |-> TxtSeven]
FragPartitionClosing == [path |-> TxtShard, partitionTimestamp |-> TxtWord]
FragPgwire == [ip |-> TxtWord, fd |-> TxtFive, connCount |-> TxtSeven]
FragMerge == [table |-> TxtTable, txn |-> TxtFive, rows |-> TxtSeven]

\* a line with a timestamp and no fragment
PlainLine(ts) ==
  [ts |-> ts, query |-> None, walJob |-> None, walCommit |-> None,
   partitionClosing |-> None, pgwire |-> None, connLimit |-> FALSE,
   o3 |-> None, squash |-> None, merge |-> None]

\* the line "dummy line" of the unit test: no timestamp, no fragment
DummyLine == PlainLine(None)

TsGood == TsText(9, 13, 11)
TsMonth13 == TsText(13, 13, 11)
TsHour99 == TsText(9, 99, 11)

QueryLine(ts) == [PlainLine(Some(ts)) EXCEPT !.query = Some(FragQuery("fin", TxtFive))]
WalJobLine(ts) == [PlainLine(Some(ts)) EXCEPT !.walJob = Some(FragWalJob(TxtAmpl))]
WalCommitLine(ts) == [PlainLine(Some(ts)) EXCEPT !.walCommit = Some(FragWalCommit)]
PartitionClosingLine(ts) ==
  [PlainLine(Some(ts)) EXCEPT !.partitionClosing = Some(FragPartitionClosing)]
PgwireLine(ts) == [PlainLine(Some(ts)) EXCEPT !.pgwire = Some(FragPgwire)]
O3Line(ts) == [PlainLine(Some(ts)) EXCEPT !.o3 = Some(TxtShard)]

\* every combination of timestamp and fragments, the query fragment with
\* both kinds and with a time that is not a number, the WAL job fragment
\* with an amplification that is a lone point, the timestamp with a month
\* and an hour out of range
AnyLines ==
  [ts : {None, Some(TsGood), Some(TsMonth13), Some(TsHour99)},
   query : {None} \cup {Some(FragQuery(k, t)) : k \in {"fin", "exe"}, t \in {TxtFive, TxtWord}},
   walJob : {None, Some(FragWalJob(TxtAmpl)), Some(FragWalJob(TxtPoint))},
   walCommit : {None, Some(FragWalCommit)},
   partitionClosing : {None, Some(FragPartitionClosing)},
   pgwire : {None, Some(FragPgwire)},
   connLimit : BOOLEAN,
   o3 : {None, Some(TxtShard)},
   squash : {None, Some(TxtTable)},
   merge : {None, Some(FragMerge)}]

\* one well-formed line of each category, and a line that matches nothing
BasicLines ==
  {DummyLine, QueryLine(TsGood), WalJobLine(TsGood), WalCommitLine(TsGood),
   PartitionClosingLine(TsGood), PgwireLine(TsGood), O3Line(TsGood)}

\* the sequences over S of length 1 to n
SeqsUpTo(S, n) == UNION {[1..k -> S] : k \in 1..n}

MaxNameLen == 4
MaxSqlTokens == 7

\* the text foo~20 of the unit test of normalizeTableName, and foo
TxtFoo == <<"f", "o", "o">>
TxtFoo20 == <<"f", "o", "o", "~", "2", "0">>

\* table names as they are captured from a line: a letter, tildes and
\* digits, such as t, t~2 and t~2~2
TableNames == SeqsUpTo({"t", "~", "2"}, MaxNameLen)

\* lines that carry a captured table name: a WAL job, a WAL commit and an
\* O3 split line
TableLines ==
  UNION {{[PlainLine(Some(TsGood)) EXCEPT !.walJob = Some([FragWalJob(TxtAmpl) EXCEPT !.table = n])],
          [PlainLine(Some(TsGood)) EXCEPT !.walCommit = Some([FragWalCommit EXCEPT !.table = n])],
          [PlainLine(Some(TsGood)) EXCEPT !.o3 = Some(n)]} : n \in TableNames}

\* a table name of as many characters as a message may have
TxtLong == [k \in 1..MessageLimit |-> "t"]

\* system event lines with that table name: one of each sub-pattern, the
\* connection-limit line being longer than 200 characters by its O3 text
LongLines ==
  {[PlainLine(Some(TsGood)) EXCEPT !.o3 = Some(TxtLong)],
   [PlainLine(Some(TsGood)) EXCEPT !.squash = Some(TxtLong)],
   [PlainLine(Some(TsGood)) EXCEPT !.merge = Some([FragMerge EXCEPT !.table = TxtLong])],
   [PlainLine(Some(TsGood)) EXCEPT !.connLimit = TRUE, !.o3 = Some(TxtLong)]}

\* what separates two tokens of a statement in the log: a space, two
\* spaces, a tab
Separators == {<<" ">>, <<" ", " ">>, <<"\t">>}

\* the statement of the tokens a a ... a separated as given
RECURSIVE SqlOf(_)
SqlOf(seps) ==
  IF Len(seps) = 0 THEN <<"a">> ELSE <<"a">> \o Head(seps) \o SqlOf(Tail(seps))

\* statements of 1 to MaxSqlTokens tokens
SqlTexts == {SqlOf(seps) : seps \in UNION {[1..k -> Separators] : k \in 0..(MaxSqlTokens - 1)}}

\* QueryProgress fin lines with these statements
SqlLines ==
  {[PlainLine(Some(TsGood)) EXCEPT !.query = Some([FragQuery("fin", TxtFive) EXCEPT !.sql = q])] :
     q \in SqlTexts}

----------------------------------------------------------------------------
(* State                                                                   *)

VARIABLES
  pPc,       \* parseQuestDBLog: "idle", "top" (loop test), "line" (after the
             \* progress test of line i, before its parsers), "done"
  pContent,  \* logContent, as runs [line, count] of equal consecutive lines
  pCb,       \* whether a progressCallback was passed
  pIdx,      \* i
  pResult,   \* result
  pCalls     \* the calls made to progressCallback, as <<current, total>>

parserVars == <<pPc, pContent, pCb, pIdx, pResult, pCalls>>

VARIABLES
  pc,         \* processFiles, per call: "idle", "reading" (suspended at await
              \* this.readFile(file)), "done", "rejected" (an exception
              \* escaped the call)
  files,      \* per call: the files argument
  fileIndex,  \* per call: fileIndex, the number of the file being read
  allResults, \* per call: allResults
  thrown,     \* per call, history: for each file processed so far, the
              \* message of the exception its processing raised, if any
  dataStore,  \* the DataStore singleton: its six collections and fileMetadata
  dom,        \* the page: progress container, results section, error alert
  callLog     \* per call, history: the calls that processFiles has made on
              \* the store and on readFile, in order

VARIABLES
  charts,       \* DataStore.charts: the chart stored under each name, if any
  chartLog,     \* history: for each chart created, in order, whether it has
                \* a destroy method, whether the store ever held it, and
                \* the number of calls of its destroy method
  listeners,    \* DataStore.listeners: the callbacks of each event, in order
  storeOut      \* the last call of setChart, destroyAllCharts, reset, on, off
                \* or emit, of a chart-creation function, and its outcome

storeVars == <<charts, chartLog, listeners, storeOut>>
callVars == <<pc, files, fileIndex, allResults, thrown, dom, callLog>>
handlerVars ==
  <<pc, files, fileIndex, allResults, thrown, dataStore, dom, callLog, storeVars>>

VARIABLES
  dpPc,    \* a call of a function of DataProcessor: "idle", "called", "returned"
  dpFn,    \* the function called
  dpArgs,  \* its arguments, as the caller holds them
  dpOut    \* what the call produced: the value returned or the exception raised

procVars == <<dpPc, dpFn, dpArgs, dpOut>>

\* no function of DataProcessor has been called
ProcIdle == dpPc = "idle" /\ dpFn = "none" /\ dpArgs = <<>> /\ dpOut = <<>>

vars == <<parserVars, handlerVars, procVars>>

----------------------------------------------------------------------------
(* parseQuestDBLog, line by line                                           *)

ProgressInterval == 1000
MaxParseLines == 2

TestFileName == <<"test.log">>

\* i % 1000 === 0
ProgressMisdue(i) == (i + 1) % ProgressInterval = 0
ProgressDue(i) == i % ProgressInterval = 0

\* lines.length for lines = logContent.split(newline)
RECURSIVE TotalLines(_)
TotalLines(content) ==
  IF Len(content) = 0 THEN 0 ELSE content[1].count + TotalLines(Tail(content))

\* lines[i], i counted from 0
RECURSIVE LineAt(_, _)
LineAt(content, i) ==
  IF i < content[1].count THEN content[1].line
  ELSE LineAt(Tail(content), i - content[1].count)

\* the content that has the given lines
RunsOf(lines) == [k \in 1..Len(lines) |-> [line |-> lines[k], count |-> 1]]

ParserIdle ==
  /\ pPc = "idle" /\ pContent = <<>> /\ pCb = FALSE /\ pIdx = 0
  /\ pResult = EmptyResult /\ pCalls = <<>>

\* the contents parsed: one line of any kind, of any table name, of any
\* statement or with a long table name, a few well-formed lines, or
\* dummy lines around the first and second multiple of the interval
\* (split never returns an empty list: the empty content is one empty line)
ParserContents ==
  {RunsOf(lines) : lines \in [1..1 -> AnyLines \cup TableLines \cup SqlLines \cup LongLines]
                               \cup SeqsUpTo(BasicLines, MaxParseLines)}
    \cup {<<[line |-> DummyLine, count |-> n]>> :
            n \in {ProgressInterval - 1, ProgressInterval, ProgressInterval + 1,
                   2 * ProgressInterval, 2 * ProgressInterval + 1}}

ParserStart ==
  /\ pPc = "top" /\ pContent \in ParserContents /\ pCb \in BOOLEAN /\ pIdx = 0
  /\ pResult = EmptyResult /\ pCalls = <<>>

\* the progress test at the top of the loop body
ParseProgress ==
  /\ pPc = "top" /\ pIdx < TotalLines(pContent)
  /\ pCalls' = IF pCb /\ ProgressDue(pIdx)
               THEN Append(pCalls, <<pIdx, TotalLines(pContent)>>)
               ELSE pCalls
  /\ pPc' = "line"
  /\ UNCHANGED <<pContent, pCb, pIdx, pResult, handlerVars, procVars>>

\* the parsers of the loop body, then i++
ParseEntry ==
  /\ pPc = "line"
  /\ pResult' = PushEntry(pResult, parseLine(LineAt(pContent, pIdx), TestFileName))
  /\ pIdx' = pIdx + 1
  /\ pPc' = "top"
  /\ UNCHANGED <<pContent, pCb, pCalls, handlerVars, procVars>>

\* return result
ParseReturn ==
  /\ pPc = "top" /\ pIdx = TotalLines(pContent)
  /\ pPc' = "done"
  /\ UNCHANGED <<pContent, pCb, pIdx, pResult, pCalls, handlerVars, procVars>>

----------------------------------------------------------------------------
(* DataStore, calculateTimeMetrics and FileHandler.processFiles            *)

MaxCalls == 2
MaxFiles == 2
MaxFileLines == 4
MaxSpreadArgs == 2

Calls == 1..MaxCalls

\* DataStore.reset(), also the state the constructor leaves
ResetStore ==
  [parsedData |-> <<>>, errorData |-> <<>>, walData |-> <<>>, walCommits |-> <<>>,
   partitionClosingData |-> <<>>, pgwireConnectionData |-> <<>>, fileMetadata |-> <<>>]

\* setQueryData, setWalData, setWalCommits, setPartitionClosingData,
\* setPgwireConnectionData and setErrorData, as processFiles calls them
StoreAll(store, results) ==
  [store EXCEPT !.parsedData = results.queries,
                !.walData = results.walJobs,
                !.walCommits = results.walCommits,
                !.partitionClosingData = results.partitionClosings,
                !.pgwireConnectionData = results.pgwireConnections,
                !.errorData = results.systemEvents]

\* DataStore.addFileMetadata
addFileMetadata(metadata, fileName, startTime, endTime, recordCount) ==
  Append(metadata, [fileName |-> fileName, startTime |-> startTime,
                    endTime |-> endTime, recordCount |-> recordCount])

\* f(...args) raises RangeError (Maximum call stack size exceeded) when args
\* has more elements than the engine can pass as arguments
SpreadThrows(args) == Len(args) > MaxSpreadArgs

RangeErrorMessage == "Maximum call stack size exceeded"

\* new Date(Math.min(...timestamps)) over the getTime() of the dates: NaN,
\* hence Invalid Date, when one of them is Invalid Date
MinDate(dates) ==
  IF \E i \in 1..Len(dates) : dates[i].nan THEN InvalidDate
  ELSE [nan |-> FALSE,
        time |-> CHOOSE t \in {dates[i].time : i \in 1..Len(dates)} :
                   \A i \in 1..Len(dates) : t <= dates[i].time]

\* new Date(Math.max(...timestamps))
MaxDate(dates) ==
  IF \E i \in 1..Len(dates) : dates[i].nan THEN InvalidDate
  ELSE [nan |-> FALSE,
        time |-> CHOOSE t \in {dates[i].time : i \in 1..Len(dates)} :
                   \A i \in 1..Len(dates) : t >= dates[i].time]

\* calculateTimeMetrics(data), data given by its timestamps: the metrics,
\* or the exception of the two spread calls.  duration is in the unit of
\* time (seconds for timestamps of one minute), rate is the fraction
\* <<data.length, Math.max(1, duration)>>; both are NaN with an Invalid Date.
calculateTimeMetrics(dates) ==
  IF Len(dates) = 0
  THEN [threw |-> FALSE, startTime |-> None, endTime |-> None,
        duration |-> Num(0, 0), rate |-> <<Num(0, 0), Num(1, 0)>>]
  ELSE IF SpreadThrows(dates)
  THEN [threw |-> TRUE, startTime |-> None, endTime |-> None,
        duration |-> Num(0, 0), rate |-> <<Num(0, 0), Num(1, 0)>>]
  ELSE LET startTime == MinDate(dates)
           endTime == MaxDate(dates)
           duration == IF startTime.nan THEN NaN ELSE Num(endTime.time - startTime.time, 0)
       IN [threw |-> FALSE, startTime |-> Some(startTime), endTime |-> Some(endTime),
           duration |-> duration,
           rate |-> IF duration.nan THEN <<NaN, NaN>>
                    ELSE <<Num(Len(dates), 0),
                           IF duration.m > 1 THEN duration ELSE Num(1, 0)>>]

\* records.map(r => r.timestamp)
TimestampsOf(records) == [i \in 1..Len(records) |-> records[i].timestamp]

\* allTimestamps: the timestamps of queries, walJobs and systemEvents; a
\* Date is truthy, so the filter drops nothing
AllTimestamps(result) ==
  TimestampsOf(result.queries) \o TimestampsOf(result.walJobs)
    \o TimestampsOf(result.systemEvents)

\* "Merge results": allResults.<c>.push(...result.<c>) for the collections
\* from number k on, in the order of Categories; a push that raises leaves
\* the pushes before it done
RECURSIVE MergeFrom(_, _, _)
MergeFrom(results, result, k) ==
  IF k > Len(Categories) THEN [results |-> results, threw |-> FALSE]
  ELSE IF SpreadThrows(result[Categories[k]]) THEN [results |-> results, threw |-> TRUE]
  ELSE MergeFrom([results EXCEPT ![Categories[k]] = @ \o result[Categories[k]]],
                 result, k + 1)

Raised(results, metadata, stage, message) ==
  [results |-> results, metadata |-> metadata,
   thrown |-> Some([stage |-> stage, message |-> message])]

\* The try block of processFiles for one file, from the settling of
\* readFile on: the allResults and the fileMetadata of the store it leaves,
\* and the exception it raised, if any.  file.fault is "read" when the
\* FileReader fails (the promise rejects with the error event, which has no
\* message) and "parse" when the injected logParser throws.
TryFile(file, results, metadata) ==
  IF file.fault = "read" THEN Raised(results, metadata, "read", "undefined")
  ELSE IF file.fault = "parse" THEN Raised(results, metadata, "parse", "Parse failed")
  ELSE LET result == parseQuestDBLog(file.lines, file.name)
           allTimestamps == AllTimestamps(result)
           metrics == calculateTimeMetrics(allTimestamps)
           withMeta == IF Len(allTimestamps) > 0 /\ ~metrics.threw
                       THEN addFileMetadata(metadata, file.name, metrics.startTime,
                                            metrics.endTime, Len(allTimestamps))
                       ELSE metadata
           merged == MergeFrom(results, result, 1)
       IN IF Len(allTimestamps) > 0 /\ metrics.threw
          THEN Raised(results, metadata, "metadata", RangeErrorMessage)
          ELSE IF merged.threw
          THEN Raised(merged.results, withMeta, "merge", RangeErrorMessage)
          ELSE [results |-> merged.results, metadata |-> withMeta, thrown |-> None]

\* whether an exception of the given stage is raised inside the try block
\* (the block spans readFile to the last merge)
TryAfterRead(stage) == stage # "read"
InsideTry(stage) == TRUE

\* the text given to showError
FailureMessage(fileName, message) == [file |-> fileName, message |-> message]

\* showError(message): the innerHTML of the alert is replaced (the page has
\* the container the alert is inserted in)
showError(page, message) == [page EXCEPT !.errorAlert = Some(message)]

\* the timestamp text of second ss of the sample minute
TsAt(ss) == TsText(9, 13, ss)

\* n copies of a line
Repeat(line, n) == [k \in 1..n |-> line]

\* File contents of at most MaxFileLines lines: at most one late query, then
\* earlier queries, then WAL commits one second before these; or one line
\* of another kind.  A file is read by a sound FileReader and parsed by
\* LogParser, or (one content) hit by a reader error or a throwing parser.
CoreContents ==
  {Repeat(QueryLine(TsAt(16)), a) \o Repeat(QueryLine(TsAt(12)), b)
     \o Repeat(WalCommitLine(TsAt(11)), d) :
     a \in 0..1, b \in 0..MaxFileLines, d \in 0..MaxFileLines}
OtherLines ==
  {DummyLine, WalJobLine(TsAt(13)), PartitionClosingLine(TsAt(10)),
   PgwireLine(TsAt(14)), O3Line(TsAt(15))}

FileChoices ==
  {[lines |-> l, fault |-> "none"] :
     l \in {c \in CoreContents : Len(c) \in 1..MaxFileLines} \cup SeqsUpTo(OtherLines, 1)}
  \cup {[lines |-> <<QueryLine(TsAt(12))>>, fault |-> f] : f \in {"read", "parse"}}

\* file.name of the file at position i of a batch
FileName(i) == <<"file", i>>

\* the batch of the given files, named by position from the given number on
NamedBatchFrom(b, first) ==
  [i \in 1..Len(b) |->
     [name |-> FileName(first + i), lines |-> b[i].lines, fault |-> b[i].fault]]
NamedBatch(b) == NamedBatchFrom(b, 0)

\* a call made by processFiles, and the calls of its end: the six setters,
\* then the emit of filesProcessed
LogCall(op, arg) == [op |-> op, arg |-> arg]
EmitBeforeSetters(results) ==
  <<LogCall("emit", <<"filesProcessed", results>>),
    LogCall("setQueryData", results.queries),
    LogCall("setWalData", results.walJobs),
    LogCall("setWalCommits", results.walCommits),
    LogCall("setPartitionClosingData", results.partitionClosings),
    LogCall("setPgwireConnectionData", results.pgwireConnections),
    LogCall("setErrorData", results.systemEvents)>>
FinalCalls(results) ==
  <<LogCall("setQueryData", results.queries),
    LogCall("setWalData", results.walJobs),
    LogCall("setWalCommits", results.walCommits),
    LogCall("setPartitionClosingData", results.partitionClosings),
    LogCall("setPgwireConnectionData", results.pgwireConnections),
    LogCall("setErrorData", results.systemEvents),
    LogCall("emit", <<"filesProcessed", results>>)>>

\* the store without a chart and without a listener
ChartNames == {"timeline", "walAmplification"}
NoCharts == [name \in ChartNames |-> None]
Events == {"queryDataChanged", "filesProcessed"}
NoListeners == [event \in Events |-> <<>>]
NoStoreCall == [op |-> "none"]

HandlerInit ==
  /\ pc = [c \in Calls |-> "idle"]
  /\ files = [c \in Calls |-> <<>>]
  /\ fileIndex = [c \in Calls |-> 0]
  /\ allResults = [c \in Calls |-> EmptyResult]
  /\ thrown = [c \in Calls |-> <<>>]
  /\ dataStore = ResetStore
  /\ dom = [progressVisible |-> FALSE, resultsVisible |-> FALSE, errorAlert |-> None]
  /\ callLog = [c \in Calls |-> <<>>]
  /\ charts = NoCharts
  /\ chartLog = <<>>
  /\ listeners = NoListeners
  /\ storeOut = NoStoreCall

\* the end of processFiles: the six setters, hideProgress, showResults and
\* the emit of filesProcessed, after the calls logged so far.  No callback
\* is registered while processFiles runs, so that the emits invoke nothing.
FinishCall(c, results, store, page, logged) ==
  /\ dataStore' = StoreAll(store, results)
  /\ dom' = [page EXCEPT !.progressVisible = FALSE, !.resultsVisible = TRUE]
  /\ callLog' = [callLog EXCEPT ![c] = logged \o FinalCalls(results)]
  /\ pc' = [pc EXCEPT ![c] = "done"]

\* processFiles(files) up to its first await: showProgress, reset (which
\* also replaces charts by an empty object), and the start of the first
\* read; the whole call when files is empty.  The files are drawn from
\* choices; call c names them from (c - 1) * MaxFiles + 1 on.
StartCallWith(c, choices) ==
  /\ pc[c] = "idle"
  /\ \E n \in 0..MaxFiles : \E b \in [1..n -> choices] :
     LET batch == NamedBatchFrom(b, (c - 1) * MaxFiles) IN
       /\ files' = [files EXCEPT ![c] = batch]
       /\ allResults' = [allResults EXCEPT ![c] = EmptyResult]
       /\ thrown' = [thrown EXCEPT ![c] = <<>>]
       /\ IF Len(batch) = 0
          THEN /\ FinishCall(c, EmptyResult, ResetStore,
                             [dom EXCEPT !.progressVisible = TRUE],
                             <<LogCall("reset", <<>>)>>)
               /\ UNCHANGED fileIndex
          ELSE /\ dataStore' = ResetStore
               /\ dom' = [dom EXCEPT !.progressVisible = TRUE]
               /\ fileIndex' = [fileIndex EXCEPT ![c] = 1]
               /\ callLog' = [callLog EXCEPT ![c] = <<LogCall("reset", <<>>),
                                                      LogCall("readFile", batch[1].name)>>]
               /\ pc' = [pc EXCEPT ![c] = "reading"]
  /\ charts' = NoCharts
  /\ UNCHANGED <<chartLog, listeners, storeOut, parserVars, procVars>>

StartCall(c) == StartCallWith(c, FileChoices)

\* The read of the current file settles and processFiles runs to its next
\* await or to its end: the try block, the catch block, then the next read
\* or the setters.
ReadSettles(c) ==
  /\ pc[c] = "reading"
  /\ \E t \in {TryFile(files[c][fileIndex[c]], allResults[c], dataStore.fileMetadata)} :
     LET file == files[c][fileIndex[c]]
         store == [dataStore EXCEPT !.fileMetadata = t.metadata]
         logged == IF t.metadata = dataStore.fileMetadata THEN callLog[c]
                   ELSE Append(callLog[c], LogCall("addFileMetadata", file.name))
     IN /\ allResults' = [allResults EXCEPT ![c] = t.results]
        /\ IF t.thrown # None /\ ~InsideTry(t.thrown[1].stage)
           THEN /\ pc' = [pc EXCEPT ![c] = "rejected"]
                /\ dataStore' = store
                /\ callLog' = [callLog EXCEPT ![c] = logged]
                /\ UNCHANGED <<dom, fileIndex, thrown>>
           ELSE LET page == IF t.thrown = None THEN dom
                            ELSE showError(dom, FailureMessage(file.name,
                                                               t.thrown[1].message))
                    errors == Append(thrown[c],
                                     IF t.thrown = None THEN None
                                     ELSE Some(t.thrown[1].message))
                IN /\ thrown' = [thrown EXCEPT ![c] = errors]
                   /\ IF fileIndex[c] < Len(files[c])
                      THEN /\ fileIndex' = [fileIndex EXCEPT ![c] = @ + 1]
                           /\ dataStore' = store
                           /\ dom' = page
                           /\ callLog' =
                                [callLog EXCEPT ![c] =
                                   Append(logged,
                                          LogCall("readFile",
                                                  files[c][fileIndex[c] + 1].name))]
                           /\ UNCHANGED pc
                      ELSE /\ FinishCall(c, t.results, store, page, logged)
                           /\ UNCHANGED fileIndex
  /\ UNCHANGED <<files, storeVars, parserVars, procVars>>

Init == ParserIdle /\ HandlerInit /\ ProcIdle
Next == StartCall(1) \/ ReadSettles(1)
Spec == Init /\ [][Next]_vars

\* two calls of processFiles, as the drop and change handlers make them
\* without awaiting the call in progress; each file has one line, a query
\* or a WAL job
BatchChoices ==
  {[lines |-> <<line>>, fault |-> "none"] : line \in {QueryLine(TsAt(12)), WalJobLine(TsAt(13))}}
StartBatch(c) == StartCallWith(c, BatchChoices)
BatchNext == StartBatch(1) \/ ReadSettles(1) \/ StartBatch(2) \/ ReadSettles(2)
SpecBatches == Init /\ [][BatchNext]_vars

ParseInit == ParserStart /\ HandlerInit /\ ProcIdle
ParseNext == ParseProgress \/ ParseEntry \/ ParseReturn
SpecParse == ParseInit /\ [][ParseNext]_vars

----------------------------------------------------------------------------
(* DataStore: charts and listeners.  A chart is [id, hasDestroy], the id   *)
(* being its position in chartLog.  A callback is [id, does, target]: when *)
(* invoked it does nothing, or calls off or on, for the event being        *)
(* dispatched, with the callback whose id is target.                       *)

MaxCharts == 3
MaxListeners == 3

\* chart.destroy() of the chart with the given id
Destroyed(log, id) == [log EXCEPT ![id].destroyed = @ + 1]

\* the entry of a chart just created
NewChart(hasDestroy, stored) ==
  [hasDestroy |-> hasDestroy, stored |-> stored, destroyed |-> 0]

\* setChart(name, chartInstance) with a chart just created.  When the
\* chart stored under name has no destroy method, this.charts[name]
\* .destroy() raises TypeError and the new chart is not stored.
StoreChart(store, name, chart) == [store EXCEPT ![name] = Some(chart)]

SetChart ==
  /\ Len(chartLog) < MaxCharts
  /\ \E name \in ChartNames, hasDestroy \in BOOLEAN :
       LET chart == [id |-> Len(chartLog) + 1, hasDestroy |-> hasDestroy]
           previous == charts[name]
       IN IF previous # None /\ ~previous[1].hasDestroy
          THEN /\ chartLog' = Append(chartLog, NewChart(hasDestroy, FALSE))
               /\ storeOut' = [op |-> "setChart", name |-> name, chart |-> chart,
                               threw |-> TRUE]
               /\ UNCHANGED charts
          ELSE /\ chartLog' = Append(IF previous = None THEN chartLog
                                     ELSE Destroyed(chartLog, previous[1].id),
                                     NewChart(hasDestroy, TRUE))
               /\ charts' = StoreChart(charts, name, chart)
               /\ storeOut' = [op |-> "setChart", name |-> name, chart |-> chart,
                               threw |-> FALSE]
  /\ UNCHANGED <<listeners, dataStore, callVars, parserVars, procVars>>

\* Object.values(this.charts).forEach(chart => ... chart.destroy()) for the
\* charts that have a destroy method
RECURSIVE DestroyEach(_, _)
DestroyEach(log, stored) ==
  IF stored = {} THEN log
  ELSE LET chart == CHOOSE x \in stored : TRUE
       IN DestroyEach(IF chart.hasDestroy THEN Destroyed(log, chart.id) ELSE log,
                      stored \ {chart})

\* the charts that the store holds
StoredCharts(store) == {store[name][1] : name \in {n \in ChartNames : store[n] # None}}

\* destroyAllCharts()
DestroyAllCharts ==
  /\ chartLog' = DestroyEach(chartLog, StoredCharts(charts))
  /\ charts' = NoCharts
  /\ storeOut' = [op |-> "destroyAllCharts"]
  /\ UNCHANGED <<listeners, dataStore, callVars, parserVars, procVars>>

\* reset(), called on the store directly: the collections, fileMetadata and
\* charts are replaced by empty ones
Reset ==
  /\ dataStore' = ResetStore
  /\ charts' = NoCharts
  /\ storeOut' = [op |-> "reset"]
  /\ UNCHANGED <<chartLog, listeners, callVars, parserVars, procVars>>

\* createWalAmplificationChart(data), on a page that has the canvas: the
\* chart stored under walAmplification is destroyed, a Chart is created,
\* and setChart stores it, which destroys the stored chart once more.
\* When the stored chart has no destroy method the first destroy() raises
\* TypeError.
CreateWalAmplificationChart ==
  /\ Len(chartLog) < MaxCharts
  /\ LET existing == charts["walAmplification"]
         chart == [id |-> Len(chartLog) + 1, hasDestroy |-> TRUE]
     IN IF existing # None /\ ~existing[1].hasDestroy
        THEN /\ storeOut' = [op |-> "createWalAmplificationChart", threw |-> TRUE]
             /\ UNCHANGED <<charts, chartLog>>
        ELSE /\ chartLog' =
                  Append(IF existing = None THEN chartLog
                         ELSE Destroyed(Destroyed(chartLog, existing[1].id),
                                        existing[1].id),
                         NewChart(TRUE, TRUE))
             /\ charts' = StoreChart(charts, "walAmplification", chart)
             /\ storeOut' = [op |-> "createWalAmplificationChart", threw |-> FALSE]
  /\ UNCHANGED <<listeners, dataStore, callVars, parserVars, procVars>>

ChartNext ==
  \/ SetChart \/ DestroyAllCharts \/ Reset \/ CreateWalAmplificationChart
  \/ StartBatch(1) \/ ReadSettles(1)
SpecCharts == Init /\ [][ChartNext]_vars

\* the callbacks: two that do nothing, one that removes itself, one that
\* removes callback 1, one that registers callback 2
StoreCallbacks ==
  {[id |-> 1, does |-> "nothing", target |-> 0],
   [id |-> 2, does |-> "nothing", target |-> 0],
   [id |-> 3, does |-> "off", target |-> 3],
   [id |-> 4, does |-> "off", target |-> 1],
   [id |-> 5, does |-> "on", target |-> 2]}
CallbackOf(id) == CHOOSE callback \in StoreCallbacks : callback.id = id

\* on(event, callback): push
on(ls, event, callback) == [ls EXCEPT ![event] = Append(@, callback)]

\* off(event, callback): indexOf, then splice(index, 1)
off(ls, event, callback) ==
  LET found == {i \in 1..Len(ls[event]) : ls[event][i] = callback}
  IN IF found = {} THEN ls
     ELSE LET index == CHOOSE i \in found : \A j \in found : i <= j
          IN [ls EXCEPT ![event] = SubSeq(@, 1, index - 1) \o SubSeq(@, index + 1, Len(@))]

\* what a callback does when it is invoked during the dispatch of event
Invoke(ls, event, callback) ==
  CASE callback.does = "off" -> off(ls, event, CallbackOf(callback.target))
    [] callback.does = "on" -> on(ls, event, CallbackOf(callback.target))
    [] OTHER -> ls

\* this.listeners[event].forEach(callback => callback(data)) from index k
\* on: forEach visits the indices below the length that the array had at
\* the start, skips those that the array no longer has, and reads each
\* element when it reaches it
RECURSIVE Dispatch(_, _, _, _, _)
Dispatch(ls, event, k, length, invoked) ==
  IF k > length THEN [listeners |-> ls, invoked |-> invoked]
  ELSE IF k > Len(ls[event]) THEN Dispatch(ls, event, k + 1, length, invoked)
  ELSE Dispatch(Invoke(ls, event, ls[event][k]), event, k + 1, length,
                Append(invoked, ls[event][k]))

\* the data emitted
EmitData == {"data", "other"}

\* the number of callbacks registered
Registered(ls) == Len(ls["queryDataChanged"]) + Len(ls["filesProcessed"])

On ==
  /\ Registered(listeners) < MaxListeners
  /\ \E event \in Events, callback \in StoreCallbacks :
       /\ listeners' = on(listeners, event, callback)
       /\ storeOut' = [op |-> "on", event |-> event, callback |-> callback]
  /\ UNCHANGED <<charts, chartLog, dataStore, callVars, parserVars, procVars>>

Off ==
  /\ \E event \in Events, callback \in StoreCallbacks :
       /\ listeners' = off(listeners, event, callback)
       /\ storeOut' = [op |-> "off", event |-> event, callback |-> callback]
  /\ UNCHANGED <<charts, chartLog, dataStore, callVars, parserVars, procVars>>

\* emit(event, data), the whole dispatch; it is not taken when the
\* callbacks would register more than MaxListeners callbacks
Emit ==
  /\ \E event \in Events, data \in EmitData :
       LET done == Dispatch(listeners, event, 1, Len(listeners[event]), <<>>)
       IN /\ Registered(done.listeners) <= MaxListeners
          /\ listeners' = done.listeners
          /\ storeOut' = [op |-> "emit", event |-> event, data |-> data,
                          invoked |-> [i \in 1..Len(done.invoked) |->
                                         [callback |-> done.invoked[i], data |-> data]]]
  /\ UNCHANGED <<charts, chartLog, dataStore, callVars, parserVars, procVars>>

EventNext == On \/ Off \/ Emit
SpecEvents == Init /\ [][EventNext]_vars

----------------------------------------------------------------------------
(* DataProcessor: the exported functions, called with arguments drawn from *)
(* small sets.  Numbers are integers; a quotient is kept exact, as the     *)
(* pair of its numerator and denominator.  A call produces                 *)
(* [threw, error, value]: the value returned, or the name of the exception *)
(* raised.                                                                 *)

MaxItems == 3

Returned(value) == [threw |-> FALSE, error |-> "", value |-> value]
Threw(error) == [threw |-> TRUE, error |-> error, value |-> <<>>]

\* num / den
Ratio(num, den) == [num |-> num, den |-> den]

\* Math.ceil(a / b) for b > 0
CeilDiv(a, b) == -((-a) \div b)

\* the sequences over S of length 0 to n
SeqsFromZero(S, n) == UNION {[1..k -> S] : k \in 0..n}

\* calculatePercentile(sortedArray, percentile): None is undefined, what
\* sortedArray[i] is for an index i past the end.  For the lengths and the
\* percentiles of the model the double (percentile / 100) * length has the
\* ceiling of the exact product.
PercentileWithoutGuard(sortedArray, percentile) ==
  LET index == CeilDiv(percentile * Len(sortedArray), 100) - 1
      at == IF index > 0 THEN index ELSE 0
  IN IF at < Len(sortedArray) THEN Some(sortedArray[at + 1]) ELSE None
calculatePercentile(sortedArray, percentile) ==
  IF Len(sortedArray) = 0 THEN Some(0)
  ELSE LET index == CeilDiv(percentile * Len(sortedArray), 100) - 1
           at == IF index > 0 THEN index ELSE 0
       IN IF at < Len(sortedArray) THEN Some(sortedArray[at + 1]) ELSE None

\* the samples of calculatePercentile: ascending lists, and percentiles
\* inside and outside 0..100
SampleValues == {1, 2, 4}
AscendingLists ==
  {l \in SeqsFromZero(SampleValues, MaxItems) : \A i \in 1..(Len(l) - 1) : l[i] <= l[i + 1]}
Percentiles == {-50, 0, 1, 25, 50, 75, 95, 99, 100, 150}

CallCalculatePercentile ==
  /\ dpPc = "idle"
  /\ \E sortedArray \in AscendingLists, percentile \in Percentiles :
       dpArgs' = [sortedArray |-> sortedArray, percentile |-> percentile]
  /\ dpFn' = "calculatePercentile"
  /\ dpPc' = "called"
  /\ UNCHANGED <<dpOut, parserVars, handlerVars>>

\* a.reduce((sum, x) => sum + x, 0)
RECURSIVE SumOf(_)
SumOf(numbers) == IF Len(numbers) = 0 THEN 0 ELSE Head(numbers) + SumOf(Tail(numbers))

\* Math.max(...numbers) and Math.min(...numbers) of a non-empty list
\* within the argument limit
MaxOf(numbers) ==
  CHOOSE x \in {numbers[i] : i \in 1..Len(numbers)} :
    \A i \in 1..Len(numbers) : x >= numbers[i]
MinOf(numbers) ==
  CHOOSE x \in {numbers[i] : i \in 1..Len(numbers)} :
    \A i \in 1..Len(numbers) : x <= numbers[i]

\* items.map(item => item.executionTimeMs)
TimesOf(items) == [i \in 1..Len(items) |-> items[i].executionTimeMs]

\* the orders in which a sort can leave the elements of a set
OrdersOf(S) == {o \in [1..Cardinality(S) -> S] : \A x \in S : \E i \in 1..Cardinality(S) : o[i] = x}

\* Math.floor(time.getTime() / intervalMs) * intervalMs, as a Date: NaN for
\* Invalid Date, and then new Date(parseInt("NaN")) is Invalid Date again
IntervalKey(item, intervalMs) ==
  IF item.timestamp.nan THEN InvalidDate
  ELSE [nan |-> FALSE, time |-> (item.timestamp.time \div intervalMs) * intervalMs]

\* the entry of grouped[intervalKey], mapped to its bucket
IntervalBucket(key, data, intervalMs) ==
  LET items == SelectSeq(data, LAMBDA item : IntervalKey(item, intervalMs) = key)
  IN [timestamp |-> key, items |-> items,
      avgTime |-> Ratio(SumOf(TimesOf(items)), Len(items)),
      maxTime |-> MaxOf(TimesOf(items)),
      count |-> Len(items)]

\* a.timestamp - b.timestamp orders the buckets but an Invalid Date one,
\* for which it is NaN: the comparison is then inconsistent and the order
\* that sort leaves is implementation-defined
SortedByTimestamp(order) ==
  \/ \E i \in 1..Len(order) : order[i].timestamp.nan
  \/ \A i \in 1..(Len(order) - 1) : order[i].timestamp.time <= order[i + 1].timestamp.time

\* groupByInterval(data, intervalMs): Math.max(...) raises RangeError for a
\* bucket of more items than a call can take as arguments
groupByInterval(data, intervalMs) ==
  LET keys == {IntervalKey(data[i], intervalMs) : i \in 1..Len(data)}
      buckets == {IntervalBucket(key, data, intervalMs) : key \in keys}
  IN IF \E b \in buckets : SpreadThrows(b.items) THEN {Threw("RangeError")}
     ELSE {Returned(order) : order \in {o \in OrdersOf(buckets) : SortedByTimestamp(o)}}

\* the samples of groupByInterval: the three instants and durations of the
\* unit test, an Invalid Date, and the intervals 500 and 250
TimedItems ==
  {[timestamp |-> t, executionTimeMs |-> x] :
     t \in {[nan |-> FALSE, time |-> ms] : ms \in {100, 300, 600}} \cup {InvalidDate},
     x \in {10, 20}}
Intervals == {500, 250}

CallGroupByInterval ==
  /\ dpPc = "idle"
  /\ \E data \in SeqsFromZero(TimedItems, MaxItems), intervalMs \in Intervals :
       dpArgs' = [data |-> data, intervalMs |-> intervalMs]
  /\ dpFn' = "groupByInterval"
  /\ dpPc' = "called"
  /\ UNCHANGED <<dpOut, parserVars, handlerVars>>

DefaultLimit == 12

\* The property names every object inherits from Object.prototype (some of
\* them): for such a key k and an object literal o without own properties,
\* o[k] is the inherited value, which is truthy and has no property of the
\* names the functions below use.
ObjectPrototypeKeys == {"constructor", "toString", "valueOf", "hasOwnProperty", "__proto__"}

\* numbers.sort((a, b) => a - b)
RECURSIVE SortAscending(_)
SortAscending(numbers) ==
  IF Len(numbers) = 0 THEN <<>>
  ELSE LET rest == SortAscending(Tail(numbers))
           below == SelectSeq(rest, LAMBDA x : x <= Head(numbers))
           above == SelectSeq(rest, LAMBDA x : x > Head(numbers))
       IN below \o <<Head(numbers)>> \o above

\* the index of the first item of data that has the key
FirstWithKey(data, key) ==
  CHOOSE i \in 1..Len(data) :
    data[i].sqlPreview = key /\ \A j \in 1..(i - 1) : data[j].sqlPreview # key

\* queryStats[key] after both loops of getTopQueries
QueryStat(key, data) ==
  LET items == SelectSeq(data, LAMBDA item : item.sqlPreview = key)
      times == SortAscending(TimesOf(items))
  IN [query |-> key, fullSql |-> items[1].fullSql, times |-> times,
      count |-> Len(items), totalTime |-> SumOf(TimesOf(items)),
      avgTime |-> Ratio(SumOf(TimesOf(items)), Len(items)),
      maxTime |-> MaxOf(TimesOf(items)), minTime |-> MinOf(TimesOf(items)),
      p99 |-> calculatePercentile(times, 99), p95 |-> calculatePercentile(times, 95),
      p50 |-> calculatePercentile(times, 50)]

\* Object.values(queryStats).sort((a, b) => b.maxTime - a.maxTime): the
\* statistics by decreasing maxTime; the sort is stable, so equal maxTime
\* keeps the order of the keys, that of their first item in data
SortedByMaxTime(order, data) ==
  \A i \in 1..(Len(order) - 1) :
    \/ order[i].maxTime > order[i + 1].maxTime
    \/ /\ order[i].maxTime = order[i + 1].maxTime
       /\ FirstWithKey(data, order[i].query) < FirstWithKey(data, order[i + 1].query)

\* getTopQueries(data, limit), limit being None when the caller passes
\* none.  With a key that Object.prototype has, queryStats[key] is not
\* initialised and queryStats[key].times.push raises TypeError; Math.max(...)
\* raises RangeError for more times than a call can take as arguments.
getTopQueries(data, limit) ==
  LET keys == {data[i].sqlPreview : i \in 1..Len(data)}
      n == IF limit = None THEN DefaultLimit ELSE limit[1]
  IN IF keys \cap ObjectPrototypeKeys # {} THEN {Threw("TypeError")}
     ELSE IF \E key \in keys : SpreadThrows(SelectSeq(data, LAMBDA item : item.sqlPreview = key))
     THEN {Threw("RangeError")}
     ELSE {Returned(SubSeq(order, 1, IF Len(order) < n THEN Len(order) ELSE n)) :
             order \in {o \in OrdersOf({QueryStat(key, data) : key \in keys}) :
                          SortedByMaxTime(o, data)}}

\* the samples of getTopQueries: the durations of the unit test, two
\* statements and a statement that is a property name of Object.prototype
QueryItems ==
  {[sqlPreview |-> q, fullSql |-> q, executionTimeMs |-> x] :
     q \in {"SELECT * FROM...", "INSERT INTO...", "constructor"}, x \in {100, 150, 200}}
Limits == {None, Some(1), Some(2)}

CallGetTopQueries ==
  /\ dpPc = "idle"
  /\ \E data \in SeqsFromZero(QueryItems, MaxItems), limit \in Limits :
       dpArgs' = [data |-> data, limit |-> limit]
  /\ dpFn' = "getTopQueries"
  /\ dpPc' = "called"
  /\ UNCHANGED <<dpOut, parserVars, handlerVars>>

\* bin number i (from 0) of createHistogramBins, without its label: start
\* is min + i * binWidth and end is start + binWidth, for
\* binWidth = (max - min) / binCount; both are kept over the denominator
\* binCount
EmptyBin(i, min, max, binCount) ==
  [start |-> Ratio(min * binCount + i * (max - min), binCount),
   end |-> Ratio(min * binCount + (i + 1) * (max - min), binCount),
   count |-> 0, values |-> <<>>]

\* Math.min(Math.floor((value - min) / binWidth), binCount - 1) for
\* max > min
BinIndex(value, min, max, binCount) ==
  LET index == ((value - min) * binCount) \div (max - min)
  IN IF index < binCount - 1 THEN index ELSE binCount - 1

\* data.forEach(value => ...) of createHistogramBins over the values from
\* number k on
RECURSIVE PopulateBins(_, _, _, _, _)
PopulateBins(bins, data, k, min, max) ==
  IF k > Len(data) THEN bins
  ELSE LET at == BinIndex(data[k], min, max, Len(bins)) + 1
       IN PopulateBins([bins EXCEPT ![at].count = @ + 1,
                                    ![at].values = Append(@, data[k])],
                       data, k + 1, min, max)

\* createHistogramBins(data, binCount).  Math.min(...data) raises
\* RangeError for more values than a call can take as arguments.  When max
\* equals min, binWidth is 0, (value - min) / binWidth is 0 / 0 = NaN, so
\* is the index, bins[NaN] is undefined and bins[binIndex].count++ raises
\* TypeError.
createHistogramBins(data, binCount) ==
  IF Len(data) = 0 THEN {Returned(<<>>)}
  ELSE IF SpreadThrows(data) THEN {Threw("RangeError")}
  ELSE IF MaxOf(data) = MinOf(data) THEN {Threw("TypeError")}
  ELSE {Returned(PopulateBins([i \in 1..binCount |->
                                 EmptyBin(i - 1, MinOf(data), MaxOf(data), binCount)],
                              data, 1, MinOf(data), MaxOf(data)))}

BinCounts == {1, 2, 3}

CallCreateHistogramBins ==
  /\ dpPc = "idle"
  /\ \E data \in SeqsFromZero(SampleValues, MaxItems), binCount \in BinCounts :
       dpArgs' = [data |-> data, binCount |-> binCount]
  /\ dpFn' = "createHistogramBins"
  /\ dpPc' = "called"
  /\ UNCHANGED <<dpOut, parserVars, handlerVars>>

\* amplifications.reduce((a, b) => a + b, 0) / amplifications.length, the
\* amplifications being in hundredths: NaN when one of them is NaN
MeanAmplification(amplifications) ==
  IF \E i \in 1..Len(amplifications) : amplifications[i].nan
  THEN [nan |-> TRUE, num |-> 0, den |-> 1]
  ELSE [nan |-> FALSE,
        num |-> SumOf([i \in 1..Len(amplifications) |-> amplifications[i].m]),
        den |-> Len(amplifications)]

\* the greatest common divisor of a >= 0 and b > 0
RECURSIVE Gcd(_, _)
Gcd(a, b) == IF a = 0 THEN b ELSE Gcd(b % a, a)

\* num / den in lowest terms
Lowest(num, den) == Ratio(num \div Gcd(num, den), den \div Gcd(num, den))

\* totalRows / Math.max(1, totalTime / 1000), in lowest terms
RowsPerSecond(totalRows, totalTime) ==
  IF totalTime > 1000 THEN Lowest(totalRows * 1000, totalTime) ELSE Ratio(totalRows, 1)

\* metrics[table] after both loops of aggregateWalMetrics
TableMetric(table, walData) ==
  LET jobs == SelectSeq(walData, LAMBDA job : job.table = table)
      totalRows == SumOf([i \in 1..Len(jobs) |-> jobs[i].rows])
      totalTime == SumOf([i \in 1..Len(jobs) |-> jobs[i].timeMs])
      amplifications == [i \in 1..Len(jobs) |-> jobs[i].amplification]
  IN [table |-> table, jobs |-> jobs, totalRows |-> totalRows, totalTime |-> totalTime,
      amplifications |-> amplifications,
      avgAmplification |-> MeanAmplification(amplifications),
      avgRate |-> RowsPerSecond(totalRows, totalTime),
      jobCount |-> Len(jobs)]

\* aggregateWalMetrics(walData): the object returned, as the function from
\* its keys.  With a table that Object.prototype has as a property,
\* metrics[table] is not initialised and metrics[table].jobs.push raises
\* TypeError.
aggregateWalMetrics(walData) ==
  LET tables == {walData[i].table : i \in 1..Len(walData)}
  IN IF tables \cap ObjectPrototypeKeys # {} THEN {Threw("TypeError")}
     ELSE {Returned([table \in tables |-> TableMetric(table, walData)])}

\* the samples of aggregateWalMetrics: the jobs of the unit test, a job of
\* more than a second, a job whose amplification is NaN (a lone point in
\* the log), and a table whose name is a property of Object.prototype
WalJobs ==
  {[table |-> t, rows |-> j[1], timeMs |-> j[2], amplification |-> [nan |-> FALSE, m |-> j[3]]] :
     t \in {"trades", "orders", "constructor"}, j \in {<<100, 10, 150>>, <<200, 2000, 200>>}}
  \cup {[table |-> "trades", rows |-> 50, timeMs |-> 5, amplification |-> [nan |-> TRUE, m |-> 0]]}

CallAggregateWalMetrics ==
  /\ dpPc = "idle"
  /\ \E walData \in SeqsFromZero(WalJobs, MaxItems) : dpArgs' = [walData |-> walData]
  /\ dpFn' = "aggregateWalMetrics"
  /\ dpPc' = "called"
  /\ UNCHANGED <<dpOut, parserVars, handlerVars>>

\* timestamp >= startTime && timestamp <= endTime on three Dates: each is
\* compared by its getTime(), and a comparison with NaN is false
InRangeExclusive(timestamp, startTime, endTime) ==
  /\ ~timestamp.nan /\ ~startTime.nan /\ ~endTime.nan
  /\ timestamp.time > startTime.time /\ timestamp.time < endTime.time
InRange(timestamp, startTime, endTime) ==
  /\ ~timestamp.nan /\ ~startTime.nan /\ ~endTime.nan
  /\ timestamp.time >= startTime.time /\ timestamp.time <= endTime.time

\* filterByTimeRange(data, startTime, endTime): data.filter builds a new
\* array; new Date(item.timestamp) of a Date is a Date of the same instant,
\* Invalid Date included
filterByTimeRange(data, startTime, endTime) ==
  {Returned(SelectSeq(data, LAMBDA item : InRange(item.timestamp, startTime, endTime)))}

\* the bounds of a time range: instants of the items and between them, and
\* Invalid Date
RangeBounds == {[nan |-> FALSE, time |-> ms] : ms \in {100, 300, 450}} \cup {InvalidDate}

CallFilterByTimeRange ==
  /\ dpPc = "idle"
  /\ \E data \in SeqsFromZero(TimedItems, MaxItems), startTime \in RangeBounds,
        endTime \in RangeBounds :
       dpArgs' = [data |-> data, startTime |-> startTime, endTime |-> endTime]
  /\ dpFn' = "filterByTimeRange"
  /\ dpPc' = "called"
  /\ UNCHANGED <<dpOut, parserVars, handlerVars>>

\* time.setMilliseconds(0) on a valid Date: the instant of the start of
\* its second (the offset of local time being whole seconds)
SetMillisecondsZero(date) == [nan |-> FALSE, time |-> (date.time \div 1000) * 1000]

\* time.toISOString() of a valid Date, as the seconds and milliseconds that
\* the text spells, and new Date(text) of such a text
ToISOString(date) == [seconds |-> date.time \div 1000, millis |-> date.time % 1000]
ParseISOString(text) == [nan |-> FALSE, time |-> text.seconds * 1000 + text.millis]

\* the key of an item in grouped, for an item whose timestamp is valid
SecondKey(item) == ToISOString(SetMillisecondsZero(item.timestamp))

\* the entry [timestamp, items] of grouped, mapped to its bucket
SecondBucket(key, data) ==
  LET items == SelectSeq(data, LAMBDA item : SecondKey(item) = key)
  IN [timestamp |-> ParseISOString(key), items |-> items,
      avgTime |-> Ratio(SumOf(TimesOf(items)), Len(items)),
      maxTime |-> MaxOf(TimesOf(items)),
      count |-> Len(items)]

\* groupBySecond(data): toISOString raises RangeError (Invalid time value)
\* on an Invalid Date, and Math.max(...) raises RangeError for a bucket of
\* more items than a call can take as arguments
groupBySecond(data) ==
  IF \E i \in 1..Len(data) : data[i].timestamp.nan THEN {Threw("RangeError")}
  ELSE LET keys == {SecondKey(data[i]) : i \in 1..Len(data)}
           buckets == {SecondBucket(key, data) : key \in keys}
       IN IF \E b \in buckets : SpreadThrows(b.items) THEN {Threw("RangeError")}
          ELSE {Returned(order) : order \in {o \in OrdersOf(buckets) : SortedByTimestamp(o)}}

\* the samples of groupBySecond: instants in three seconds, two of them in
\* the same one, and an Invalid Date
SecondItems ==
  {[timestamp |-> t, executionTimeMs |-> x] :
     t \in {[nan |-> FALSE, time |-> ms] : ms \in {100, 1300, 1600, 2000}} \cup {InvalidDate},
     x \in {10, 20}}

CallGroupBySecond ==
  /\ dpPc = "idle"
  /\ \E data \in SeqsFromZero(SecondItems, MaxItems) : dpArgs' = [data |-> data]
  /\ dpFn' = "groupBySecond"
  /\ dpPc' = "called"
  /\ UNCHANGED <<dpOut, parserVars, handlerVars>>

\* the ten statistics of an empty dataset
ZeroStatistics ==
  [count |-> 0, mean |-> Ratio(0, 1), median |-> Some(0), min |-> 0, max |-> 0,
   stdDevSquared |-> Ratio(0, 1),
   p25 |-> Some(0), p75 |-> Some(0), p95 |-> Some(0), p99 |-> Some(0)]

\* calculateStatistics(data) for a list of numbers; stdDev is given by its
\* square avgSquaredDiff = (count * sum of squares - sum^2) / count^2
calculateStatistics(data) ==
  IF Len(data) = 0 THEN {Returned(ZeroStatistics)}
  ELSE LET sorted == SortAscending(data)
           count == Len(data)
           sum == SumOf(data)
           squares == SumOf([i \in 1..count |-> data[i] * data[i]])
       IN {Returned([count |-> count, mean |-> Ratio(sum, count),
                     median |-> calculatePercentile(sorted, 50),
                     min |-> sorted[1], max |-> sorted[Len(sorted)],
                     stdDevSquared |-> Ratio(count * squares - sum * sum, count * count),
                     p25 |-> calculatePercentile(sorted, 25),
                     p75 |-> calculatePercentile(sorted, 75),
                     p95 |-> calculatePercentile(sorted, 95),
                     p99 |-> calculatePercentile(sorted, 99)])}

CallCalculateStatistics ==
  /\ dpPc = "idle"
  /\ \E data \in SeqsFromZero(SampleValues, MaxItems) : dpArgs' = [data |-> data]
  /\ dpFn' = "calculateStatistics"
  /\ dpPc' = "called"
  /\ UNCHANGED <<dpOut, parserVars, handlerVars>>

\* item.table || 'unknown', a missing table being None
TableOf(item) == IF item.table = None THEN "unknown" ELSE item.table[1]

\* groupByTable(data): the object returned, as the function from its keys.
\* With a table that Object.prototype has as a property, grouped[table] is
\* not initialised and grouped[table].push raises TypeError.
groupByTable(data) ==
  LET tables == {TableOf(data[i]) : i \in 1..Len(data)}
  IN IF tables \cap ObjectPrototypeKeys # {} THEN {Threw("TypeError")}
     ELSE {Returned([table \in tables |->
                       SelectSeq(data, LAMBDA item : TableOf(item) = table)])}

\* the samples of groupByTable: the items of the unit test, and a table
\* whose name is a property of Object.prototype
TableItems ==
  {[table |-> t, value |-> v] :
     t \in {Some("trades"), Some("orders"), Some("constructor"), None}, v \in {1, 2}}

CallGroupByTable ==
  /\ dpPc = "idle"
  /\ \E data \in SeqsFromZero(TableItems, MaxItems) : dpArgs' = [data |-> data]
  /\ dpFn' = "groupByTable"
  /\ dpPc' = "called"
  /\ UNCHANGED <<dpOut, parserVars, handlerVars>>

\* calculateTimeMetrics(data) as a call of its own: data.map(d => new
\* Date(d.timestamp).getTime()) is the list of the instants
CallCalculateTimeMetrics ==
  /\ dpPc = "idle"
  /\ \E data \in SeqsFromZero(TimedItems, MaxItems) : dpArgs' = [data |-> data]
  /\ dpFn' = "calculateTimeMetrics"
  /\ dpPc' = "called"
  /\ UNCHANGED <<dpOut, parserVars, handlerVars>>

\* what the call in progress can produce (one outcome, but where the result
\* is implementation-defined)
Outcomes(fn, args) ==
  CASE fn = "calculatePercentile" ->
         {Returned(calculatePercentile(args.sortedArray, args.percentile))}
    [] fn = "groupByInterval" -> groupByInterval(args.data, args.intervalMs)
    [] fn = "getTopQueries" -> getTopQueries(args.data, args.limit)
    [] fn = "createHistogramBins" -> createHistogramBins(args.data, args.binCount)
    [] fn = "aggregateWalMetrics" -> aggregateWalMetrics(args.walData)
    [] fn = "filterByTimeRange" ->
         filterByTimeRange(args.data, args.startTime, args.endTime)
    [] fn = "groupBySecond" -> groupBySecond(args.data)
    [] fn = "calculateStatistics" -> calculateStatistics(args.data)
    [] fn = "groupByTable" -> groupByTable(args.data)
    [] fn = "calculateTimeMetrics" ->
         LET metrics == calculateTimeMetrics(TimestampsOf(args.data))
         IN {IF metrics.threw THEN Threw("RangeError") ELSE Returned(metrics)}

\* the function called runs to its end; none of the functions assigns to
\* its arguments or to what they refer to
DpReturn ==
  /\ dpPc = "called"
  /\ dpOut' \in Outcomes(dpFn, dpArgs)
  /\ dpPc' = "returned"
  /\ UNCHANGED <<dpFn, dpArgs, parserVars, handlerVars>>

ProcNext ==
  \/ CallCalculatePercentile \/ CallGroupByInterval \/ CallGetTopQueries
  \/ CallCreateHistogramBins \/ CallAggregateWalMetrics \/ CallFilterByTimeRange
  \/ CallGroupBySecond \/ CallCalculateStatistics \/ CallGroupByTable
  \/ CallCalculateTimeMetrics
  \/ DpReturn
SpecProc == Init /\ [][ProcNext]_vars

----------------------------------------------------------------------------
(* The WAL charts of visualization/ChartManagerExtensions                  *)

\* job.type === 'apply', the test of createWalAmplificationChart,
\* createWalAmplificationLogChart and createWalRateChart, and the negation
\* of job.type !== 'apply' of createWalTableChart and createWalTableMetrics;
\* the type of a record without this field is undefined
IsApplyJob(job) == "type" \in DOMAIN job /\ job.type = "apply"

\* sortedData.filter(job => job.type === 'apply'), and the jobs that the
\* forEach of createWalTableChart and createWalTableMetrics does not skip
ApplyJobs(data) == SelectSeq(data, IsApplyJob)

----------------------------------------------------------------------------
(* Claims about parseQuestDBLog, checked under SpecParse                   *)

\* whether the pattern of collection number k (in the order of Categories)
\* matches the line structurally, that is as a regex
StructuralMatch(k, line) ==
  CASE k = 1 -> PatternQuery(line) # None
    [] k = 2 -> PatternWalJob(line) # None
    [] k = 3 -> PatternWalCommit(line) # None
    [] k = 4 -> PatternPartitionClosing(line) # None
    [] k = 5 -> PatternPgwireConnection(line) # None
    [] k = 6 -> /\ line.ts # None
                /\ \/ PatternConnectionLimit(line)
                   \/ PatternO3Partition(line) # None
                   \/ PatternPartitionSquashing(line) # None
                   \/ PatternMergePartition(line) # None

\* the number of the first pattern that matches the line, 0 when none does
FirstStructuralMatch(line) ==
  LET hits == {k \in 1..Len(Categories) : StructuralMatch(k, line)}
  IN IF hits = {} THEN 0 ELSE CHOOSE k \in hits : \A j \in hits : k <= j

\* the number of records in the six collections of a result
RECURSIVE TotalFrom(_, _)
TotalFrom(result, k) ==
  IF k > Len(Categories) THEN 0
  ELSE Len(result[Categories[k]]) + TotalFrom(result, k + 1)
TotalRecords(result) == TotalFrom(result, 1)

\* C1 (as stated): parsing a line adds at most one record to the six
\* collections, and a record that is added goes to the collection of the
\* first pattern, in the order query, walApply, walCommit, partitionClose,
\* pgwireConnection, systemEvent, that matches the line.
C1_FirstMatchingPatternWins ==
  [][pPc = "line" =>
       LET first == FirstStructuralMatch(LineAt(pContent, pIdx))
       IN /\ TotalRecords(pResult') <= TotalRecords(pResult) + 1
          /\ \A k \in 1..Len(Categories) :
               pResult'[Categories[k]] # pResult[Categories[k]] => k = first]_vars

\* the numeric fields of the records of a result
NumericFields(result) ==
  UNION {{result.queries[i].executionTimeMs} : i \in 1..Len(result.queries)}
  \cup UNION {{result.walJobs[i].transactions, result.walJobs[i].rows,
              result.walJobs[i].timeMs, result.walJobs[i].rate,
              result.walJobs[i].amplification} : i \in 1..Len(result.walJobs)}
  \cup UNION {{result.walCommits[i].rowLo, result.walCommits[i].rowHi,
              result.walCommits[i].rowsCommitted} : i \in 1..Len(result.walCommits)}
  \cup UNION {{result.pgwireConnections[i].fd, result.pgwireConnections[i].connCount} :
               i \in 1..Len(result.pgwireConnections)}

\* C8 (as stated): a pattern whose captured field does not parse to a
\* number yields no record, so no stored record carries a numeric field
\* that is not a number.
C8_NoUnparsedNumericField == \A n \in NumericFields(pResult) : ~n.nan

\* the timestamps of the records of a result
Timestamps(result) ==
  UNION {{result[c][i].timestamp : i \in 1..Len(result[c])} : c \in CategorySet}

\* C9 (as stated): every record stored by parseQuestDBLog carries a
\* timestamp that parsed to a valid instant.
C9_EveryTimestampIsAnInstant == \A t \in Timestamps(pResult) : ~t.nan

\* the calls (index, N) at the indices 0, 1000, 2000, ... below n
ExpectedProgress(n, N) == [k \in 1..((n + 999) \div 1000) |-> <<(k - 1) * 1000, N>>]

\* C10: with a progress callback, the calls made so far are exactly those
\* at the indices 0, 1000, 2000, ... among the lines reached, in increasing
\* order, each with (index, N) and each made before the parsers run on its
\* line (position "line"); none is added at the end of the file, and none
\* is made without a callback.
C10_ProgressCadence ==
  pPc # "idle" =>
    LET reached == IF pPc = "line" THEN pIdx + 1 ELSE pIdx
    IN pCalls = IF pCb THEN ExpectedProgress(reached, TotalLines(pContent)) ELSE <<>>

\* a file of 2001 lines has been parsed with a callback: three calls, the
\* last at index 2000
C10_Witness ==
  /\ pPc = "done" /\ pCb /\ TotalLines(pContent) = 2001
  /\ pCalls = <<<<0, 2001>>, <<1000, 2001>>, <<2000, 2001>>>>

\* the table names of the stored records that have one
StoredTables(result) ==
  UNION {{result[c][i].table : i \in 1..Len(result[c])} :
           c \in {"walJobs", "walCommits", "partitionClosings"}}
  \cup {result.systemEvents[i].table[1] :
          i \in {j \in 1..Len(result.systemEvents) : result.systemEvents[j].table # None}}

\* C11 (as stated): normalizeTableName maps foo~20 to foo, leaves foo
\* unchanged, and is idempotent: normalizing the table name of a stored
\* record, which is already normalized, changes nothing.
C11_NormalizeIdempotent ==
  /\ normalizeTableName(TxtFoo20) = TxtFoo
  /\ normalizeTableName(TxtFoo) = TxtFoo
  /\ \A t \in StoredTables(pResult) : normalizeTableName(t) = t

\* the tokens of a text that are delimited by whitespace (runs of spaces
\* and tabs)
RECURSIVE WhitespaceTokens(_)
WhitespaceTokens(s) ==
  IF Len(s) = 0 THEN <<>>
  ELSE IF Head(s) \in {" ", "\t"} THEN WhitespaceTokens(Tail(s))
  ELSE LET stops == {i \in 1..Len(s) : s[i] \in {" ", "\t"}}
           k == IF stops = {} THEN Len(s) + 1
                ELSE CHOOSE i \in stops : \A j \in stops : i <= j
       IN <<SubSeq(s, 1, k - 1)>> \o WhitespaceTokens(SubSeq(s, k, Len(s)))

\* the first 5 tokens joined by single spaces, then ... when there are more
ExpectedPreview(sql) ==
  LET tokens == WhitespaceTokens(sql)
  IN JoinSpaces(SubSeq(tokens, 1, IF Len(tokens) < 5 THEN Len(tokens) ELSE 5))
       \o (IF Len(tokens) > 5 THEN <<".", ".", ".">> ELSE <<>>)

\* C12 (as stated): the sqlPreview of every query record is the first 5
\* whitespace-delimited tokens of its fullSql joined by single spaces,
\* followed by ... exactly when fullSql has more than 5 tokens, whatever
\* whitespace separates the tokens.
C12_PreviewOfFiveTokens ==
  \A i \in 1..Len(pResult.queries) :
    pResult.queries[i].sqlPreview = ExpectedPreview(pResult.queries[i].fullSql)

\* whether sub-pattern number k of parseSystemEvent (connection limit, O3
\* split, squashing, merge) is found in the line
SubPatternHit(k, line) ==
  CASE k = 1 -> line.connLimit
    [] k = 2 -> PatternO3Partition(line) # None
    [] k = 3 -> PatternPartitionSquashing(line) # None
    [] k = 4 -> PatternMergePartition(line) # None

ErrorTypes ==
  <<"Connection Limit", "O3 Partition Split", "Partition Squashing", "Merge Partition">>

\* the number of the first sub-pattern found in the line, 0 when none is
FirstSubPattern(line) ==
  LET hits == {k \in 1..Len(ErrorTypes) : SubPatternHit(k, line)}
  IN IF hits = {} THEN 0 ELSE CHOOSE k \in hits : \A j \in hits : k <= j

\* C13: parsing a line that has a timestamp and matches none of the five
\* primary patterns appends exactly one system event, whose errorType is
\* that of the first of the sub-patterns connection limit, O3 split,
\* squashing, merge found in the line, and nothing when none is found; the
\* other collections are left alone.
C13_FirstSubPatternClassifies ==
  [][pPc = "line" =>
       LET line == LineAt(pContent, pIdx)
           first == FirstSubPattern(line)
           before == Len(pResult.systemEvents)
       IN (line.ts # None /\ \A k \in 1..5 : ~StructuralMatch(k, line)) =>
            /\ \A c \in CategorySet \ {"systemEvents"} : pResult'[c] = pResult[c]
            /\ IF first = 0 THEN pResult'.systemEvents = pResult.systemEvents
               ELSE /\ Len(pResult'.systemEvents) = before + 1
                    /\ SubSeq(pResult'.systemEvents, 1, before) = pResult.systemEvents
                    /\ pResult'.systemEvents[before + 1].errorType = ErrorTypes[first]]_vars

\* a line with a timestamp, no primary pattern and all four sub-patterns
\* has been parsed: one event, of type Connection Limit
C13_Witness ==
  /\ pPc = "done" /\ TotalLines(pContent) = 1
  /\ LET line == LineAt(pContent, 0)
     IN /\ line.ts # None /\ \A k \in 1..5 : ~StructuralMatch(k, line)
        /\ \A k \in 1..Len(ErrorTypes) : SubPatternHit(k, line)
  /\ Len(pResult.systemEvents) = 1
  /\ pResult.systemEvents[1].errorType = "Connection Limit"

\* C14 (as stated): every system event stored by the parser has a message
\* of at most 200 characters, whatever its error type and however long its
\* table name.
C14_MessageAtMost200 ==
  \A i \in 1..Len(pResult.systemEvents) : pResult.systemEvents[i].message.length <= 200

\* C25: a line that PATTERNS.query matches, of kind fin or of kind exe (a
\* timestamp, QueryProgress fin or exe, an sql field and a time field),
\* adds a record to the queries collection.
C25_QueryOfBothKinds ==
  [][(pPc = "line" /\ PatternQuery(LineAt(pContent, pIdx)) # None) =>
       Len(pResult'.queries) = Len(pResult.queries) + 1]_vars

\* C29: every record that the parser stores in walJobs passes the filter of
\* the WAL charts, so what they plot of the parsed jobs is all of them.
C29_ParsedJobsPassTheApplyFilter ==
  /\ \A i \in 1..Len(pResult.walJobs) : IsApplyJob(pResult.walJobs[i])
  /\ ApplyJobs(pResult.walJobs) = pResult.walJobs

----------------------------------------------------------------------------
(* Claims about processFiles, checked under Spec                           *)

\* the records of a collection that come from the file of the given name
RecordsOfFile(records, fileName) == SelectSeq(records, LAMBDA r : r.file = fileName)

\* the collection of the store that processFiles sets from allResults.<c>
StoreCollection(store, c) ==
  CASE c = "queries" -> store.parsedData
    [] c = "walJobs" -> store.walData
    [] c = "walCommits" -> store.walCommits
    [] c = "partitionClosings" -> store.partitionClosingData
    [] c = "pgwireConnections" -> store.pgwireConnectionData
    [] c = "systemEvents" -> store.errorData

\* whether the processing of the file raises when it is the only file
RaisesAlone(file) == TryFile(file, EmptyResult, <<>>).thrown # None

\* C2: a file whose processing raises does not abort the batch.  No
\* exception escapes the call; while the call awaits a read, every earlier
\* file has been dealt with; and when the call is done every file has been
\* dealt with, and each file after a failed one that does not itself raise
\* has all its parsed records, in order, in the merged result.
C2_BatchSurvivesFailure ==
  \A c \in Calls :
    /\ pc[c] # "rejected"
    /\ pc[c] = "reading" => Len(thrown[c]) = fileIndex[c] - 1
    /\ pc[c] = "done" =>
         /\ Len(thrown[c]) = Len(files[c])
         /\ \A j \in 1..Len(files[c]) :
              (/\ \E i \in 1..(j - 1) : thrown[c][i] # None
               /\ ~RaisesAlone(files[c][j]))
              => /\ thrown[c][j] = None
                 /\ \A cat \in CategorySet :
                      RecordsOfFile(allResults[c][cat], files[c][j].name)
                        = parseQuestDBLog(files[c][j].lines, files[c][j].name)[cat]

\* a batch of two files is done: the read of the first failed, the second
\* was merged
C2_Witness ==
  /\ pc[1] = "done" /\ Len(files[1]) = 2
  /\ files[1][1].fault = "read" /\ thrown[1][1] # None
  /\ thrown[1][2] = None /\ Len(allResults[1].queries) > 0
  /\ dataStore.parsedData = allResults[1].queries

\* C3 (as stated): a file whose processing raised has no record in any of
\* the six collections handed to the store.
C3_NoPartialMerge ==
  \A c \in Calls :
    pc[c] = "done" =>
      \A i \in 1..Len(files[c]) :
        thrown[c][i] # None =>
          \A cat \in CategorySet :
            RecordsOfFile(StoreCollection(dataStore, cat), files[c][i].name) = <<>>

\* the messages the error alert of the page shows
AlertMessages == {dom.errorAlert[k] : k \in 1..Len(dom.errorAlert)}

\* C4 (as stated): when the batch has finished, the message "Failed to
\* process <file>: <message>" of every file that failed is available.
C4_EveryFailureMessageKept ==
  \A c \in Calls :
    pc[c] = "done" =>
      \A i \in 1..Len(files[c]) :
        thrown[c][i] # None =>
          FailureMessage(files[c][i].name, thrown[c][i][1]) \in AlertMessages

\* the records of one category parsed from the files from number i on that
\* were processed without an exception, in file order
RECURSIVE ConcatSuccessful(_, _, _, _)
ConcatSuccessful(batch, errors, cat, i) ==
  IF i > Len(batch) THEN <<>>
  ELSE (IF errors[i] = None
        THEN parseQuestDBLog(batch[i].lines, batch[i].name)[cat]
        ELSE <<>>) \o ConcatSuccessful(batch, errors, cat, i + 1)

\* C5 (as stated): after processFiles, each collection given to the store
\* is the concatenation, in file order, of the records parsed from each
\* successfully processed file.
C5_ConcatenationOfSuccessfulFiles ==
  \A c \in Calls :
    pc[c] = "done" =>
      \A cat \in CategorySet :
        StoreCollection(dataStore, cat) = ConcatSuccessful(files[c], thrown[c], cat, 1)

\* the timestamps of the records of all six categories of a result
RECURSIVE SixTimestampsFrom(_, _)
SixTimestampsFrom(result, k) ==
  IF k > Len(Categories) THEN <<>>
  ELSE TimestampsOf(result[Categories[k]]) \o SixTimestampsFrom(result, k + 1)

\* C6 (as stated): the metadata entry of a successfully processed file has
\* the minimum and the maximum timestamp over the records of all six
\* categories of the file as its startTime and endTime.
C6_MetadataSpansAllCategories ==
  \A c \in Calls : \A i \in 1..Len(thrown[c]) :
    \A k \in 1..Len(dataStore.fileMetadata) :
      (thrown[c][i] = None /\ dataStore.fileMetadata[k].fileName = files[c][i].name) =>
        \E all \in {SixTimestampsFrom(parseQuestDBLog(files[c][i].lines, files[c][i].name), 1)} :
          /\ dataStore.fileMetadata[k].startTime = Some(MinDate(all))
          /\ dataStore.fileMetadata[k].endTime = Some(MaxDate(all))

\* C7 (as stated): a successfully ingested file has exactly one metadata
\* entry when it yields a record in any of the six categories, and none
\* when it yields no record.
C7_OneEntryPerFileWithRecords ==
  \A c \in Calls :
    pc[c] = "done" =>
      \A i \in 1..Len(files[c]) :
        thrown[c][i] = None =>
          Cardinality({k \in 1..Len(dataStore.fileMetadata) :
                         dataStore.fileMetadata[k].fileName = files[c][i].name})
            = IF TotalRecords(parseQuestDBLog(files[c][i].lines, files[c][i].name)) > 0
              THEN 1 ELSE 0

----------------------------------------------------------------------------
(* Claims about DataProcessor, checked under SpecProc                      *)

\* i clamped to lo..hi
Clamp(i, lo, hi) == IF i < lo THEN lo ELSE IF i > hi THEN hi ELSE i

\* C15 (as stated): calculatePercentile(S, p) returns 0 for an empty S and
\* otherwise the element of S at index ceil(p/100 * n) - 1 clamped to
\* 0..n-1, for every ascending S of length n and every p.
C15_NearestRankClamped ==
  (dpPc = "returned" /\ dpFn = "calculatePercentile") =>
    LET S == dpArgs.sortedArray
        n == Len(S)
    IN /\ ~dpOut.threw
       /\ dpOut.value =
            IF n = 0 THEN Some(0)
            ELSE Some(S[Clamp(CeilDiv(dpArgs.percentile * n, 100) - 1, 0, n - 1) + 1])

\* x / y = a / b
SameRatio(r, a, b) == r.num * b = a * r.den

\* C16 (as stated): groupByInterval places every record in exactly one
\* bucket, whose start is floor(timestamp / intervalMs) * intervalMs;
\* returns only non-empty buckets, in strictly ascending order of start;
\* and reports for each bucket the number, the mean and the maximum
\* executionTimeMs of its members.
C16_BucketsByInterval ==
  (dpPc = "returned" /\ dpFn = "groupByInterval") =>
    /\ ~dpOut.threw
    /\ LET data == dpArgs.data
           out == dpOut.value
       IN /\ \A i \in 1..Len(data) :
               Cardinality({b \in 1..Len(out) :
                              out[b].timestamp = IntervalKey(data[i], dpArgs.intervalMs)}) = 1
          /\ \A b \in 1..Len(out) :
               LET members == SelectSeq(data, LAMBDA item :
                                  IntervalKey(item, dpArgs.intervalMs) = out[b].timestamp)
               IN /\ out[b].items = members
                  /\ out[b].count = Len(members) /\ out[b].count > 0
                  /\ SameRatio(out[b].avgTime, SumOf(TimesOf(members)), Len(members))
                  /\ out[b].maxTime = MaxOf(TimesOf(members))
          /\ \A b \in 1..(Len(out) - 1) :
               /\ ~out[b].timestamp.nan /\ ~out[b + 1].timestamp.nan
               /\ out[b].timestamp.time < out[b + 1].timestamp.time

\* the executionTimeMs of the records of data that have the signature
TimesOfSignature(data, sig) ==
  TimesOf(SelectSeq(data, LAMBDA item : item.sqlPreview = sig))

\* C17 (as stated): getTopQueries returns one statistic per distinct
\* sqlPreview, by non-increasing maxTime, cut to the first limit entries
\* (12 by default), so that no omitted signature has a larger maxTime than
\* an included one; count, totalTime, minTime and maxTime of a statistic
\* are those of all the records of its signature.
C17_TopQueriesByMaxTime ==
  (dpPc = "returned" /\ dpFn = "getTopQueries") =>
    /\ ~dpOut.threw
    /\ LET data == dpArgs.data
           out == dpOut.value
           limit == IF dpArgs.limit = None THEN 12 ELSE dpArgs.limit[1]
           sigs == {data[i].sqlPreview : i \in 1..Len(data)}
           included == {out[k].query : k \in 1..Len(out)}
       IN /\ Len(out) = IF Cardinality(sigs) < limit THEN Cardinality(sigs) ELSE limit
          /\ included \subseteq sigs
          /\ Cardinality(included) = Len(out)
          /\ \A k \in 1..(Len(out) - 1) : out[k].maxTime >= out[k + 1].maxTime
          /\ \A sig \in sigs \ included : \A k \in 1..Len(out) :
               MaxOf(TimesOfSignature(data, sig)) <= out[k].maxTime
          /\ \A k \in 1..Len(out) :
               LET times == TimesOfSignature(data, out[k].query)
               IN /\ out[k].count = Len(times)
                  /\ out[k].totalTime = SumOf(times)
                  /\ out[k].minTime = MinOf(times)
                  /\ out[k].maxTime = MaxOf(times)

\* the number of times x occurs in a list
Occurrences(list, x) == Len(SelectSeq(list, LAMBDA y : y = x))

\* r = q for two quotients
RatioEq(r, q) == r.num * q.den = q.num * r.den

\* C18 (as stated): for every non-empty list of values and every
\* binCount >= 1, createHistogramBins returns binCount bins of equal width
\* that cover min..max, counts every value in exactly one bin, so that the
\* counts sum to the number of values, and puts the values equal to the
\* maximum in the last bin; a single value and values all equal included.
C18_BinsCoverEveryValue ==
  (dpPc = "returned" /\ dpFn = "createHistogramBins" /\ Len(dpArgs.data) > 0) =>
    /\ ~dpOut.threw
    /\ LET data == dpArgs.data
           n == dpArgs.binCount
           out == dpOut.value
       IN /\ Len(out) = n
          /\ RatioEq(out[1].start, Ratio(MinOf(data), 1))
          /\ RatioEq(out[n].end, Ratio(MaxOf(data), 1))
          /\ \A i \in 1..n :
               (out[i].end.num * out[i].start.den - out[i].start.num * out[i].end.den) * n
                 = (MaxOf(data) - MinOf(data)) * out[i].start.den * out[i].end.den
          /\ \A i \in 1..(n - 1) : RatioEq(out[i].end, out[i + 1].start)
          /\ \A i \in 1..n : out[i].count = Len(out[i].values)
          /\ \A k \in 1..Len(data) :
               SumOf([i \in 1..n |-> Occurrences(out[i].values, data[k])])
                 = Occurrences(data, data[k])
          /\ SumOf([i \in 1..n |-> out[i].count]) = Len(data)
          /\ Occurrences(out[n].values, MaxOf(data)) = Occurrences(data, MaxOf(data))

\* the sum of f[x] over the elements x of a finite set
RECURSIVE SumOver(_, _)
SumOver(S, f) ==
  IF S = {} THEN 0 ELSE LET x == CHOOSE y \in S : TRUE IN f[x] + SumOver(S \ {x}, f)

\* C19 (as stated): aggregateWalMetrics returns one entry per distinct
\* table, with jobCount the number of the jobs of the table, totalRows the
\* sum of their rows, avgAmplification the mean of their amplification and
\* avgRate = totalRows / max(1, totalTimeMs / 1000); the jobCounts of all
\* entries sum to the number of jobs given.
C19_WalMetricsPerTable ==
  (dpPc = "returned" /\ dpFn = "aggregateWalMetrics") =>
    /\ ~dpOut.threw
    /\ LET walData == dpArgs.walData
           out == dpOut.value
           at == [table \in DOMAIN out |-> {i \in 1..Len(walData) : walData[i].table = table}]
       IN /\ DOMAIN out = {walData[i].table : i \in 1..Len(walData)}
          /\ \A table \in DOMAIN out :
               LET rows == SumOver(at[table], [i \in at[table] |-> walData[i].rows])
                   time == SumOver(at[table], [i \in at[table] |-> walData[i].timeMs])
                   known == \A i \in at[table] : ~walData[i].amplification.nan
               IN /\ out[table].jobCount = Cardinality(at[table])
                  /\ out[table].totalRows = rows
                  /\ out[table].avgAmplification.nan = ~known
                  /\ known =>
                       out[table].avgAmplification.num * Cardinality(at[table])
                         = SumOver(at[table], [i \in at[table] |-> walData[i].amplification.m])
                             * out[table].avgAmplification.den
                  /\ out[table].avgRate =
                       IF time > 1000 THEN Lowest(rows * 1000, time) ELSE Ratio(rows, 1)
          /\ SumOver(DOMAIN out, [table \in DOMAIN out |-> out[table].jobCount]) = Len(walData)

\* start <= t <= end for three instants; it holds of no Invalid Date
Between(t, start, end) ==
  /\ ~t.nan /\ ~start.nan /\ ~end.nan
  /\ start.time <= t.time /\ t.time <= end.time

\* C20: a call of filterByTimeRange(records, start, end) returns, in the
\* order of the input, exactly the records whose timestamp t satisfies
\* start <= t <= end, both bounds included, and leaves its arguments, the
\* input list among them, as they were.
C20_FilterInclusive ==
  [][(dpPc = "called" /\ dpFn = "filterByTimeRange") =>
       /\ dpArgs' = dpArgs
       /\ ~dpOut'.threw
       /\ dpOut'.value =
            SelectSeq(dpArgs.data,
                      LAMBDA r : Between(r.timestamp, dpArgs.startTime, dpArgs.endTime))]_vars

\* a call has returned whose range starts at the instant of the first
\* record and ends at that of the second: both are kept, the third is not
C20_Witness ==
  /\ dpPc = "returned" /\ dpFn = "filterByTimeRange"
  /\ Len(dpArgs.data) = 3
  /\ dpArgs.data[1].timestamp = dpArgs.startTime
  /\ dpArgs.data[2].timestamp = dpArgs.endTime
  /\ ~dpArgs.startTime.nan /\ ~dpArgs.endTime.nan
  /\ dpArgs.startTime.time < dpArgs.endTime.time
  /\ dpArgs.data[3].timestamp.nan
  /\ dpOut.value = SubSeq(dpArgs.data, 1, 2)

\* the collection that a call was given
InputOf(fn, args) ==
  CASE fn = "calculatePercentile" -> args.sortedArray
    [] fn = "aggregateWalMetrics" -> args.walData
    [] OTHER -> args.data

\* a result that is empty, or whose fields are all zero or null
EmptyOrZero(fn, value) ==
  CASE fn \in {"groupBySecond", "groupByInterval", "getTopQueries",
               "createHistogramBins", "filterByTimeRange"} -> value = <<>>
    [] fn \in {"groupByTable", "aggregateWalMetrics"} -> DOMAIN value = {}
    [] fn = "calculatePercentile" -> value = Some(0)
    [] fn = "calculateStatistics" ->
         /\ value.count = 0 /\ value.min = 0 /\ value.max = 0
         /\ value.mean.num = 0 /\ value.stdDevSquared.num = 0
         /\ \A f \in {"median", "p25", "p75", "p95", "p99"} : value[f] = Some(0)
    [] fn = "calculateTimeMetrics" ->
         /\ value.startTime = None /\ value.endTime = None
         /\ value.duration = Num(0, 0) /\ value.rate[1] = Num(0, 0)

\* C21: each of the ten functions of DataProcessor, called with an empty
\* collection, returns without raising, and what it returns is empty or has
\* only zero and null fields.
C21_EmptyInputIsWellDefined ==
  (dpPc = "returned" /\ InputOf(dpFn, dpArgs) = <<>>) =>
     /\ ~dpOut.threw
     /\ EmptyOrZero(dpFn, dpOut.value)

\* calculatePercentile has returned 0 for the median of an empty list
C21_Witness ==
  /\ dpPc = "returned" /\ dpFn = "calculatePercentile"
  /\ dpArgs.sortedArray = <<>> /\ dpArgs.percentile = 50
  /\ dpOut = Returned(Some(0))

\* C30: groupBySecond(records) returns what groupByInterval(records, 1000)
\* returns, for every list of records: the same buckets in the same order,
\* each with the same start, members, avgTime, maxTime and count.
C30_SecondIsIntervalOf1000 ==
  (dpPc = "returned" /\ dpFn = "groupBySecond") =>
     groupByInterval(dpArgs.data, 1000) = {dpOut}

----------------------------------------------------------------------------
(* Claims about the calls that processFiles makes, checked under Spec      *)

\* the positions of the calls of the given name in a log
CallsOf(log, op) == {i \in 1..Len(log) : log[i].op = op}

SetterNames ==
  {"setQueryData", "setWalData", "setWalCommits", "setPartitionClosingData",
   "setPgwireConnectionData", "setErrorData"}

\* C22: a call of processFiles resets the store first, before any read;
\* until its last file is dealt with it calls no setter and emits nothing;
\* when it is done it has read each file, then called each of the six
\* setters exactly once, then, as its last call on the store, emitted
\* filesProcessed exactly once with the merged results.  This holds also
\* when every file failed.
C22_ResetThenSettersThenEmit ==
  \A c \in Calls :
    LET log == callLog[c]
        n == Len(log)
    IN /\ pc[c] # "idle" =>
            /\ n > 0 /\ CallsOf(log, "reset") = {1}
       /\ pc[c] = "reading" =>
            \A i \in 1..n : log[i].op \in {"reset", "readFile", "addFileMetadata"}
       /\ pc[c] = "done" =>
            /\ n >= 8
            /\ log[n] = [op |-> "emit", arg |-> <<"filesProcessed", allResults[c]>>]
            /\ CallsOf(log, "emit") = {n}
            /\ \A setter \in SetterNames :
                 /\ Cardinality(CallsOf(log, setter)) = 1
                 /\ CallsOf(log, setter) \subseteq (n - 6)..(n - 1)
            /\ Cardinality(CallsOf(log, "readFile")) = Len(files[c])
            /\ \A i \in CallsOf(log, "readFile") \cup CallsOf(log, "addFileMetadata") :
                 i < n - 6

\* a call is done whose two files both failed
C22_Witness ==
  /\ pc[1] = "done" /\ Len(files[1]) = 2
  /\ thrown[1][1] # None /\ thrown[1][2] # None
  /\ callLog[1][Len(callLog[1])].op = "emit"
  /\ Len(callLog[1]) = 10

\* C27: at the end of processFiles the store has a metadata entry for a
\* file only if the records of the file were merged: a file whose
\* processing raised has no entry in fileMetadata.
C27_MetadataOnlyOfMergedFiles ==
  \A c \in Calls :
    pc[c] = "done" =>
      \A k \in 1..Len(files[c]) :
        thrown[c][k] # None =>
          \A i \in 1..Len(dataStore.fileMetadata) :
            dataStore.fileMetadata[i].fileName # files[c][k].name

----------------------------------------------------------------------------
(* Claims about overlapping calls of processFiles, checked under           *)
(* SpecBatches                                                             *)

\* the names of the files that have a record in the six collections of the
\* store, and of those that have an entry in its fileMetadata
FilesInCollections ==
  UNION {{StoreCollection(dataStore, cat)[i].file :
            i \in 1..Len(StoreCollection(dataStore, cat))} : cat \in CategorySet}
FilesInMetadata ==
  {dataStore.fileMetadata[i].fileName : i \in 1..Len(dataStore.fileMetadata)}

\* C26: once two calls of processFiles have completed, the second of which
\* may have started while the first awaited a read, fileMetadata lists
\* exactly the files whose records are in the six collections of the store.
C26_MetadataMatchesCollections ==
  (pc[1] = "done" /\ pc[2] = "done") => FilesInMetadata = FilesInCollections

----------------------------------------------------------------------------
(* Claims about the DataStore, checked under SpecEvents and SpecCharts     *)

\* C23: emit(event, data) invokes the callbacks that are registered for the
\* event when it is called, each once with data, in registration order, and
\* none that off removed before; also when a callback calls on or off
\* during the dispatch.
C23_EmitInvokesEveryRegisteredCallback ==
  [][(storeOut'.op = "emit" /\ <<storeOut, listeners>>' # <<storeOut, listeners>>) =>
       storeOut'.invoked =
         [i \in 1..Len(listeners[storeOut'.event]) |->
            [callback |-> listeners[storeOut'.event][i], data |-> storeOut'.data]]]_vars

\* C24: setChart(name, chart) destroys the chart stored under name, then
\* stores chart, so that getChart(name) is chart; destroyAllCharts destroys
\* every stored chart that has a destroy method and leaves no chart.
C24_SetChartReplacesAndDestroys ==
  [][/\ (storeOut'.op = "setChart" /\ chartLog' # chartLog) =>
          /\ charts'[storeOut'.name] = Some(storeOut'.chart)
          /\ charts[storeOut'.name] # None =>
               chartLog'[charts[storeOut'.name][1].id].destroyed
                 = chartLog[charts[storeOut'.name][1].id].destroyed + 1
     /\ (storeOut'.op = "destroyAllCharts" /\ storeOut' # storeOut) =>
          /\ charts' = NoCharts
          /\ \A chart \in StoredCharts(charts) :
               chart.hasDestroy =>
                 chartLog'[chart.id].destroyed = chartLog[chart.id].destroyed + 1]_vars

\* C28: a chart with a destroy method that the store held and holds no
\* more has been destroyed exactly once, and no chart is destroyed more
\* than once, whatever calls of setChart, destroyAllCharts, reset, the
\* chart-creation functions and processFiles were made.
C28_DroppedChartsDestroyedOnce ==
  \A id \in 1..Len(chartLog) :
    /\ chartLog[id].destroyed <= 1
    /\ (/\ chartLog[id].stored /\ chartLog[id].hasDestroy
        /\ \A chart \in StoredCharts(charts) : chart.id # id)
       => chartLog[id].destroyed = 1

====
